---- MODULE Spec2Model ----
(***************************************************************************)
(* Model of the streaming metrics pipeline of realtime-mlops-monitor:      *)
(*   MetricsEvent / MetricsAggregator  (sliding window of sub-windows)     *)
(*   AlertManager                      (rule evaluation, alert lifecycle)  *)
(*   EventConsumer                     (broker message settlement)         *)
(*   StorageManager                    (batched persistence, cache)        *)
(* Strings are sequences of one-character strings, so that the formatting  *)
(* and splitting the code does on keys and ids is computed, not assumed.   *)
(* Metric values of a snapshot are kept in hundredths (the code rounds     *)
(* every emitted value to two decimals): 5.00 is 500.                      *)
(***************************************************************************)
EXTENDS Integers, Sequences, FiniteSets, TLC

VARIABLES
    aggregator,     \* MetricsAggregator: configuration, deque of sealed windows, current window
    ingested,       \* history: the events handed to MetricsAggregator.add_event, in order
    alert_manager,  \* AlertManager: alert_rules, active_alerts, alert_history, stats
    alerts,         \* the heap of Alert objects ever created (active map and history refer to them)
    notified,       \* history: the alerts handed to the registered callback, with the status seen
    now,            \* the wall clock read by datetime.utcnow()
    last_call,      \* history: what the last acknowledge_alert call returned
    consumer,       \* EventConsumer.stats
    settled,        \* history: how the broker saw each delivered message settled
    storage,        \* StorageManager: pending_metrics, last_batch_time, stats
    inserted,       \* history: the batches handed to conn.executemany, with their outcome
    cache,          \* the Redis keys written by _update_redis_cache
    processor,      \* MetricsProcessor: _is_running, _is_stopping, the loop tasks, stats, stop()
    connections     \* EventConsumer._is_consuming and _consumer_tag, the broker, the clients

vars == <<aggregator, ingested, alert_manager, alerts, notified, now, last_call,
          consumer, settled, storage, inserted, cache, processor, connections>>

aggregator_vars == <<aggregator, ingested>>
alert_vars      == <<alert_manager, alerts, notified, now, last_call>>
consumer_vars   == <<consumer, settled>>
storage_vars    == <<storage, inserted, cache>>
processor_vars  == <<processor, connections>>

-----------------------------------------------------------------------------
(* Values shared by the components *)

\* Python's None, for Optional[str] fields; no name contains this token
None == <<"<None>">>

\* Truthiness of an Optional[str]: None and "" are false
Truthy(s) == s # None /\ s # <<>>

Colon == <<":">>

\* and Python's None for an Optional[datetime]
NoTime == -1

Max(a, b) == IF a >= b THEN a ELSE b

\* round(num / den, 2), in hundredths, ties to even; num >= 0, den > 0
RoundHundredths(num, den) ==
    LET q == (num * 100) \div den
        r == (num * 100) % den
    IN  IF 2 * r > den THEN q + 1
        ELSE IF 2 * r < den THEN q
        ELSE IF q % 2 = 0 THEN q ELSE q + 1

RECURSIVE SumSeq(_)
SumSeq(s) == IF s = <<>> THEN 0 ELSE Head(s) + SumSeq(Tail(s))

RECURSIVE InsertSorted(_, _)
InsertSorted(s, x) ==
    IF s = <<>> THEN <<x>>
    ELSE IF x <= Head(s) THEN <<x>> \o s
    ELSE <<Head(s)>> \o InsertSorted(Tail(s), x)

RECURSIVE Sorted(_)
Sorted(s) == IF s = <<>> THEN <<>> ELSE InsertSorted(Sorted(Tail(s)), Head(s))

-----------------------------------------------------------------------------
(* MetricsEvent *)

API_REQUEST   == "api_request"
API_RESPONSE  == "api_response"
API_ERROR     == "api_error"
SYSTEM_HEALTH == "system_health"

MetricsEvent(event_type, timestamp, service_name, api_endpoint, status_code, response_time_ms) ==
    [event_type       |-> event_type,
     timestamp        |-> timestamp,
     service_name     |-> service_name,
     api_endpoint     |-> api_endpoint,
     status_code      |-> status_code,
     response_time_ms |-> response_time_ms]

\* MetricsEvent.from_request_response; the timestamp is the default utcnow() of the field
from_request_response(service_name, endpoint, status_code, response_time_ms, timestamp) ==
    MetricsEvent(IF status_code >= 400 THEN API_ERROR ELSE API_RESPONSE,
                 timestamp, service_name, endpoint, status_code, response_time_ms)

-----------------------------------------------------------------------------
(* TimeWindow *)

EmptyStat ==
    [request_count |-> 0, error_count |-> 0, total_response_time |-> 0, response_times |-> <<>>]

\* TimeWindow.__init__ (the write-only list self.events is left out)
TimeWindow(window_start, duration_seconds) ==
    [window_start        |-> window_start,
     window_end          |-> window_start + duration_seconds,
     duration_seconds    |-> duration_seconds,
     request_count       |-> 0,
     error_count         |-> 0,
     total_response_time |-> 0,
     response_times      |-> <<>>,
     service_stats       |-> << >>,
     endpoint_stats      |-> << >>]

IsErrorStatus(event) == event.status_code # 0 /\ event.status_code >= 400

HasLatency(event) == event.response_time_ms # 0

\* the counter update counting a failed request as an error only
StatAddErrorsApart(stat, event) ==
    [request_count       |-> stat.request_count + (IF IsErrorStatus(event) THEN 0 ELSE 1),
     error_count         |-> stat.error_count + (IF IsErrorStatus(event) THEN 1 ELSE 0),
     total_response_time |-> stat.total_response_time
                                + (IF HasLatency(event) THEN event.response_time_ms ELSE 0),
     response_times      |-> IF HasLatency(event)
                             THEN Append(stat.response_times, event.response_time_ms)
                             ELSE stat.response_times]

\* one of the three identical counter updates of TimeWindow.add_event
StatAdd(stat, event) ==
    [request_count       |-> stat.request_count + 1,
     error_count         |-> stat.error_count + (IF IsErrorStatus(event) THEN 1 ELSE 0),
     total_response_time |-> stat.total_response_time
                                + (IF HasLatency(event) THEN event.response_time_ms ELSE 0),
     response_times      |-> IF HasLatency(event)
                             THEN Append(stat.response_times, event.response_time_ms)
                             ELSE stat.response_times]

\* a defaultdict entry assigned from the event instead of accumulated
StatsAddAssigns(stats, key, event) ==
    [k \in (DOMAIN stats) \cup {key} |-> IF k = key THEN StatAdd(EmptyStat, event) ELSE stats[k]]

\* a defaultdict entry after one more event
StatsAdd(stats, key, event) ==
    [k \in (DOMAIN stats) \cup {key} |->
        IF k = key
        THEN StatAdd(IF key \in DOMAIN stats THEN stats[key] ELSE EmptyStat, event)
        ELSE stats[k]]

\* f"{event.service_name}:{event.api_endpoint}"
EndpointKey(service_name, api_endpoint) ==
    (IF service_name = None THEN <<"N", "o", "n", "e">> ELSE service_name) \o Colon \o api_endpoint

\* the range check that opens TimeWindow.add_event
TimeWindowAccepts(w, event) ==
    w.window_start <= event.timestamp /\ event.timestamp < w.window_end

\* TimeWindow.add_event on an accepted event
TimeWindowAddEvent(w, event) ==
    LET overall == StatAdd([request_count       |-> w.request_count,
                            error_count         |-> w.error_count,
                            total_response_time |-> w.total_response_time,
                            response_times      |-> w.response_times], event)
    IN  [w EXCEPT
            !.request_count       = overall.request_count,
            !.error_count         = overall.error_count,
            !.total_response_time = overall.total_response_time,
            !.response_times      = overall.response_times,
            !.service_stats       = IF Truthy(event.service_name)
                                    THEN StatsAdd(@, event.service_name, event)
                                    ELSE @,
            !.endpoint_stats      = IF Truthy(event.api_endpoint)
                                    THEN StatsAdd(@, EndpointKey(event.service_name, event.api_endpoint), event)
                                    ELSE @]

-----------------------------------------------------------------------------
(* MetricsAggregator *)

\* MetricsAggregator.__init__
MetricsAggregatorInit(window_size_seconds, sub_window_seconds) ==
    [window_size_seconds    |-> window_size_seconds,
     sub_window_seconds     |-> sub_window_seconds,
     num_sub_windows        |-> window_size_seconds \div sub_window_seconds,
     windows                |-> <<>>,
     current_window         |-> <<>>,      \* <<>> is None, <<w>> is the window w
     last_window_start      |-> NoTime,
     total_events_processed |-> 0]

\* _get_window_start_time
WindowStartTime(agg, event_time) ==
    (event_time \div agg.sub_window_seconds) * agg.sub_window_seconds

\* deque.append on a deque(maxlen = num_sub_windows)
DequeAppend(windows, w, maxlen) ==
    IF maxlen = 0 THEN <<>>
    ELSE IF Len(windows) >= maxlen THEN Append(Tail(windows), w)
    ELSE Append(windows, w)

\* _ensure_current_window: the aggregator after it
EnsureCurrentWindow(agg, event_time) ==
    LET window_start == WindowStartTime(agg, event_time)
    IN  IF agg.current_window = <<>> \/ agg.current_window[1].window_start # window_start
        THEN [agg EXCEPT
                !.windows = IF agg.current_window # <<>>
                            THEN DequeAppend(@, agg.current_window[1], agg.num_sub_windows)
                            ELSE @,
                !.current_window    = <<TimeWindow(window_start, agg.sub_window_seconds)>>,
                !.last_window_start = window_start]
        ELSE agg

\* MetricsAggregator.add_event without the test of the event_type
AggregatorAddEventOfAnyType(agg, event) ==
    LET a == EnsureCurrentWindow(agg, event.timestamp)
        w == a.current_window[1]
    IN  IF TimeWindowAccepts(w, event)
        THEN [a EXCEPT !.current_window = <<TimeWindowAddEvent(w, event)>>,
                       !.total_events_processed = @ + 1]
        ELSE a

\* MetricsAggregator.add_event: the aggregator after it
AggregatorAddEvent(agg, event) ==
    IF event.event_type # API_RESPONSE THEN agg
    ELSE LET a == EnsureCurrentWindow(agg, event.timestamp)
             w == a.current_window[1]
         IN  IF TimeWindowAccepts(w, event)
             THEN [a EXCEPT !.current_window = <<TimeWindowAddEvent(w, event)>>,
                            !.total_events_processed = @ + 1]
             ELSE a

\* all_windows of get_current_metrics: the sealed windows, then the current one
AllWindows(agg) == agg.windows \o agg.current_window

\* _calculate_percentile returning sorted_values[floor_k], without the interpolation
CalculatePercentileLowerRank(values, percentile) ==
    IF values = <<>> THEN 0
    ELSE LET sorted_values == Sorted(values)
         IN  sorted_values[(((Len(sorted_values) - 1) * percentile) \div 100) + 1] * 100

\* _calculate_percentile, in hundredths (exact: the fraction of k has denominator 100)
CalculatePercentile(values, percentile) ==
    IF values = <<>> THEN 0
    ELSE LET sorted_values == Sorted(values)
             n       == Len(sorted_values)
             k100    == (n - 1) * percentile
             floor_k == k100 \div 100
             ceil_k  == floor_k + 1
         IN  IF ceil_k >= n THEN sorted_values[n] * 100
             ELSE sorted_values[floor_k + 1] * 100
                    + (k100 % 100) * (sorted_values[ceil_k + 1] - sorted_values[floor_k + 1])

\* the seven emitted values of one scope
ScopeMetrics(request_count, error_count, response_times, window_size_seconds) ==
    [qps               |-> RoundHundredths(request_count, window_size_seconds),
     error_rate        |-> IF request_count > 0
                           THEN RoundHundredths(error_count * 100, request_count) ELSE 0,
     avg_response_time |-> IF response_times # <<>>
                           THEN RoundHundredths(SumSeq(response_times), Len(response_times)) ELSE 0,
     p95_response_time |-> CalculatePercentile(response_times, 95),
     p99_response_time |-> CalculatePercentile(response_times, 99),
     total_requests    |-> request_count,
     total_errors      |-> error_count]

RECURSIVE SumOver(_, _)
SumOver(ws, field) == IF ws = <<>> THEN 0 ELSE Head(ws)[field] + SumOver(Tail(ws), field)

RECURSIVE ConcatTimes(_)
ConcatTimes(ws) == IF ws = <<>> THEN <<>> ELSE Head(ws).response_times \o ConcatTimes(Tail(ws))

\* the per-key sums of _aggregate_service_metrics / _aggregate_endpoint_metrics
RECURSIVE KeyedSum(_, _, _, _)
KeyedSum(ws, table, key, field) ==
    IF ws = <<>> THEN 0
    ELSE (IF key \in DOMAIN Head(ws)[table] THEN Head(ws)[table][key][field] ELSE 0)
         + KeyedSum(Tail(ws), table, key, field)

RECURSIVE KeyedTimes(_, _, _)
KeyedTimes(ws, table, key) ==
    IF ws = <<>> THEN <<>>
    ELSE (IF key \in DOMAIN Head(ws)[table] THEN Head(ws)[table][key].response_times ELSE <<>>)
         \o KeyedTimes(Tail(ws), table, key)

\* _aggregate_service_metrics (table = "service_stats") and _aggregate_endpoint_metrics
AggregateKeyed(ws, table, window_size_seconds) ==
    LET keys == UNION {DOMAIN ws[i][table] : i \in 1..Len(ws)}
    IN  [k \in keys |->
            ScopeMetrics(KeyedSum(ws, table, k, "request_count"),
                         KeyedSum(ws, table, k, "error_count"),
                         KeyedTimes(ws, table, k), window_size_seconds)]

\* _empty_metrics
EmptyMetrics(agg) ==
    [window_size_seconds |-> agg.window_size_seconds,
     active_windows      |-> 0,
     overall             |-> ScopeMetrics(0, 0, <<>>, agg.window_size_seconds),
     services            |-> << >>,
     endpoints           |-> << >>]

\* MetricsAggregator.get_current_metrics (timestamp and window_details left out)
get_current_metrics(agg) ==
    LET all_windows == AllWindows(agg)
    IN  IF all_windows = <<>> THEN EmptyMetrics(agg)
        ELSE [window_size_seconds |-> agg.window_size_seconds,
              active_windows      |-> Len(all_windows),
              overall             |-> ScopeMetrics(SumOver(all_windows, "request_count"),
                                                   SumOver(all_windows, "error_count"),
                                                   ConcatTimes(all_windows),
                                                   agg.window_size_seconds),
              services            |-> AggregateKeyed(all_windows, "service_stats",
                                                     agg.window_size_seconds),
              endpoints           |-> AggregateKeyed(all_windows, "endpoint_stats",
                                                     agg.window_size_seconds)]

-----------------------------------------------------------------------------
(* AlertManager *)

TRIGGERED    == "triggered"
RESOLVED     == "resolved"
ACKNOWLEDGED == "acknowledged"

AlertRule(id, metric_type, operator, threshold, severity, service_name, endpoint, duration_seconds, enabled) ==
    [id               |-> id,
     metric_type      |-> metric_type,
     operator         |-> operator,
     threshold        |-> threshold,
     severity         |-> severity,
     service_name     |-> service_name,
     endpoint         |-> endpoint,
     duration_seconds |-> duration_seconds,
     enabled          |-> enabled]

HighErrorRate ==
    AlertRule(<<"high_error_rate">>, "error_rate", ">", 500, "high", None, None, 60, TRUE)
CriticalErrorRate ==
    AlertRule(<<"critical_error_rate">>, "error_rate", ">", 1000, "critical", None, None, 30, TRUE)
HighResponseTime ==
    AlertRule(<<"high_response_time">>, "p95_response_time", ">", 100000, "medium", None, None, 120, TRUE)
CriticalResponseTime ==
    AlertRule(<<"critical_response_time">>, "p99_response_time", ">", 500000, "critical", None, None, 60, TRUE)
LowQps ==
    AlertRule(<<"low_qps">>, "qps", "<", 100, "low", None, None, 300, TRUE)

\* _setup_default_rules: the dict alert_rules in insertion order
DefaultRules ==
    <<HighErrorRate, CriticalErrorRate, HighResponseTime, CriticalResponseTime, LowQps>>

\* AlertManager.__init__
AlertManagerInit ==
    [alert_rules      |-> DefaultRules,
     active_alerts    |-> << >>,       \* alert id -> the Alert object (its index in alerts)
     alert_history    |-> <<>>,        \* Alert objects (indices in alerts)
     max_history_size |-> 1000,
     alert_callbacks  |-> 0,           \* the callbacks are numbered 1..alert_callbacks
     stats            |-> [total_alerts_triggered |-> 0,
                           total_alerts_resolved  |-> 0,
                           rule_checks_performed  |-> 0]]

\* the three objects an AlertManager operation reads and writes
AlertState(am, heap, calls) == [am |-> am, alerts |-> heap, notified |-> calls]

RuleIndex(rules, rule_id) ==
    IF \E i \in 1..Len(rules) : rules[i].id = rule_id
    THEN CHOOSE i \in 1..Len(rules) : rules[i].id = rule_id
    ELSE 0

\* add_alert_rule: self.alert_rules[rule.id] = rule (an existing key keeps its place)
AddAlertRule(am, rule) ==
    LET i == RuleIndex(am.alert_rules, rule.id)
    IN  [am EXCEPT !.alert_rules = IF i = 0 THEN Append(@, rule) ELSE [@ EXCEPT ![i] = rule]]

\* remove_alert_rule: del self.alert_rules[rule_id] when present
RemoveAlertRule(am, rule_id) ==
    LET i == RuleIndex(am.alert_rules, rule_id)
    IN  IF i = 0 THEN am
        ELSE [am EXCEPT !.alert_rules =
                SubSeq(@, 1, i - 1) \o SubSeq(@, i + 1, Len(@))]

\* _evaluate_condition; an unknown operator gives False
EvaluateCondition(value, operator, threshold) ==
    CASE operator = ">"  -> value > threshold
      [] operator = "<"  -> value < threshold
      [] operator = ">=" -> value >= threshold
      [] operator = "<=" -> value <= threshold
      [] operator = "==" -> value = threshold     \* abs(value - threshold) < 0.001, on hundredths
      [] OTHER           -> FALSE

\* _generate_alert_id: ":".join of the rule id and the truthy scope parts
GenerateAlertId(rule, service_name, endpoint) ==
    rule.id \o (IF Truthy(service_name) THEN Colon \o service_name ELSE <<>>)
            \o (IF Truthy(endpoint) THEN Colon \o endpoint ELSE <<>>)

\* the callback loop of _trigger_alert and _resolve_alert: each callback, once, in order
InvokeCallbacks(calls, n_callbacks, alert, status) ==
    calls \o [cb \in 1..n_callbacks |-> [callback |-> cb, alert |-> alert, status |-> status]]

MapPut(f, k, v) == [x \in (DOMAIN f) \cup {k} |-> IF x = k THEN v ELSE f[x]]

MapDel(f, k) == [x \in (DOMAIN f) \ {k} |-> f[x]]

\* the trimming keeping the first max_history_size entries
TrimHistoryKeepsOldest(history, max_history_size) ==
    IF Len(history) > max_history_size THEN SubSeq(history, 1, max_history_size) ELSE history

\* alert_history[-max_history_size:] when the list got longer than max_history_size
TrimHistory(history, max_history_size) ==
    IF Len(history) > max_history_size
    THEN SubSeq(history, Len(history) - max_history_size + 1, Len(history))
    ELSE history

\* _trigger_alert
TriggerAlert(st, alert) ==
    LET ref == Len(st.alerts) + 1
    IN  AlertState(
            [st.am EXCEPT
                !.active_alerts = MapPut(@, alert.id, ref),
                !.alert_history = TrimHistory(Append(@, ref), st.am.max_history_size),
                !.stats.total_alerts_triggered = @ + 1],
            Append(st.alerts, alert),
            InvokeCallbacks(st.notified, st.am.alert_callbacks, ref, alert.status))

\* _resolve_alert without `del self.active_alerts[alert_id]`
ResolveAlertKeepsActive(st, alert_id, t) ==
    IF alert_id \in DOMAIN st.am.active_alerts
    THEN LET ref == st.am.active_alerts[alert_id]
         IN  AlertState(
                [st.am EXCEPT !.stats.total_alerts_resolved = @ + 1],
                [st.alerts EXCEPT ![ref].status = RESOLVED, ![ref].resolved_at = t],
                InvokeCallbacks(st.notified, st.am.alert_callbacks, ref, RESOLVED))
    ELSE st

\* _resolve_alert
ResolveAlert(st, alert_id, t) ==
    IF alert_id \in DOMAIN st.am.active_alerts
    THEN LET ref == st.am.active_alerts[alert_id]
         IN  AlertState(
                [st.am EXCEPT
                    !.active_alerts = MapDel(@, alert_id),
                    !.stats.total_alerts_resolved = @ + 1],
                [st.alerts EXCEPT ![ref].status = RESOLVED, ![ref].resolved_at = t],
                InvokeCallbacks(st.notified, st.am.alert_callbacks, ref, RESOLVED))
    ELSE st

\* the Alert that _evaluate_rule builds
NewAlert(rule, alert_id, metric_value, service_name, endpoint, t) ==
    [id              |-> alert_id,
     rule_id         |-> rule.id,
     severity        |-> rule.severity,
     status          |-> TRIGGERED,
     metric_value    |-> metric_value,
     threshold       |-> rule.threshold,
     service_name    |-> service_name,
     endpoint        |-> endpoint,
     triggered_at    |-> t,
     resolved_at     |-> NoTime,
     acknowledged_at |-> NoTime]

\* _evaluate_rule without the test `alert_id not in self.active_alerts`
EvaluateRuleAlwaysTriggers(st, rule, metrics, service_name, endpoint, t) ==
    IF rule.metric_type \notin DOMAIN metrics THEN st
    ELSE LET metric_value  == metrics[rule.metric_type]
             condition_met == EvaluateCondition(metric_value, rule.operator, rule.threshold)
             alert_id      == GenerateAlertId(rule, service_name, endpoint)
         IN  IF condition_met
             THEN TriggerAlert(st, NewAlert(rule, alert_id, metric_value, service_name, endpoint, t))
             ELSE ResolveAlert(st, alert_id, t)

\* _evaluate_rule
EvaluateRule(st, rule, metrics, service_name, endpoint, t) ==
    IF rule.metric_type \notin DOMAIN metrics THEN st
    ELSE LET metric_value  == metrics[rule.metric_type]
             condition_met == EvaluateCondition(metric_value, rule.operator, rule.threshold)
             alert_id      == GenerateAlertId(rule, service_name, endpoint)
         IN  IF condition_met
             THEN IF alert_id \notin DOMAIN st.am.active_alerts
                  THEN TriggerAlert(st, NewAlert(rule, alert_id, metric_value, service_name, endpoint, t))
                  ELSE st
             ELSE IF alert_id \in DOMAIN st.am.active_alerts
                  THEN ResolveAlert(st, alert_id, t)
                  ELSE st

\* the filters of the three loops over alert_rules
OverallApplies(rule) ==
    rule.enabled /\ ~Truthy(rule.service_name) /\ ~Truthy(rule.endpoint)

\* the filter of _check_service_metrics, had it skipped the rules without a service_name
ServiceAppliesToScopedOnly(rule, service_name) ==
    /\ rule.enabled
    /\ rule.service_name = service_name
    /\ ~Truthy(rule.endpoint)

ServiceApplies(rule, service_name) ==
    /\ rule.enabled
    /\ ~(Truthy(rule.service_name) /\ rule.service_name # service_name)
    /\ ~Truthy(rule.endpoint)

\* the filter of _check_endpoint_metrics without the comparison of the service names
EndpointAppliesAnyService(rule, service_name, endpoint) ==
    /\ rule.enabled
    /\ ~(Truthy(rule.endpoint) /\ rule.endpoint # endpoint)

EndpointApplies(rule, service_name, endpoint) ==
    /\ rule.enabled
    /\ ~(Truthy(rule.service_name) /\ rule.service_name # service_name)
    /\ ~(Truthy(rule.endpoint) /\ rule.endpoint # endpoint)

\* _check_overall_metrics
RECURSIVE CheckOverallMetrics(_, _, _, _)
CheckOverallMetrics(st, rules, overall_metrics, t) ==
    IF rules = <<>> THEN st
    ELSE CheckOverallMetrics(
            IF OverallApplies(Head(rules))
            THEN EvaluateRule(st, Head(rules), overall_metrics, None, None, t)
            ELSE st,
            Tail(rules), overall_metrics, t)

\* _check_service_metrics
RECURSIVE CheckServiceMetrics(_, _, _, _, _)
CheckServiceMetrics(st, rules, service_name, service_metrics, t) ==
    IF rules = <<>> THEN st
    ELSE CheckServiceMetrics(
            IF ServiceApplies(Head(rules), service_name)
            THEN EvaluateRule(st, Head(rules), service_metrics, service_name, None, t)
            ELSE st,
            Tail(rules), service_name, service_metrics, t)

HasColon(key) == \E i \in 1..Len(key) : key[i] = ":"

FirstColon(key) == CHOOSE i \in 1..Len(key) : key[i] = ":" /\ \A j \in 1..(i - 1) : key[j] # ":"

\* endpoint_key.split(":", 1), or (None, endpoint_key) for a key without a colon
SplitEndpointKey(key) ==
    IF HasColon(key)
    THEN [service_name |-> SubSeq(key, 1, FirstColon(key) - 1),
          endpoint     |-> SubSeq(key, FirstColon(key) + 1, Len(key))]
    ELSE [service_name |-> None, endpoint |-> key]

\* the loop over alert_rules of _check_endpoint_metrics
RECURSIVE CheckEndpointRules(_, _, _, _, _, _)
CheckEndpointRules(st, rules, service_name, endpoint, endpoint_metrics, t) ==
    IF rules = <<>> THEN st
    ELSE CheckEndpointRules(
            IF EndpointApplies(Head(rules), service_name, endpoint)
            THEN EvaluateRule(st, Head(rules), endpoint_metrics, service_name, endpoint, t)
            ELSE st,
            Tail(rules), service_name, endpoint, endpoint_metrics, t)

\* _check_endpoint_metrics
CheckEndpointMetrics(st, endpoint_key, endpoint_metrics, t) ==
    LET parts == SplitEndpointKey(endpoint_key)
    IN  CheckEndpointRules(st, st.am.alert_rules, parts.service_name, parts.endpoint,
                           endpoint_metrics, t)

\* for service_name, service_metrics in metrics_data["services"].items(); the keys are
\* taken in some fixed order (distinct services give distinct alert ids for a rule)
RECURSIVE CheckAllServices(_, _, _, _)
CheckAllServices(st, services, todo, t) ==
    IF todo = {} THEN st
    ELSE LET service_name == CHOOSE k \in todo : TRUE
         IN  CheckAllServices(
                CheckServiceMetrics(st, st.am.alert_rules, service_name, services[service_name], t),
                services, todo \ {service_name}, t)

\* for endpoint_key, endpoint_metrics in metrics_data["endpoints"].items()
RECURSIVE CheckAllEndpoints(_, _, _, _)
CheckAllEndpoints(st, endpoints, todo, t) ==
    IF todo = {} THEN st
    ELSE LET endpoint_key == CHOOSE k \in todo : TRUE
         IN  CheckAllEndpoints(
                CheckEndpointMetrics(st, endpoint_key, endpoints[endpoint_key], t),
                endpoints, todo \ {endpoint_key}, t)

\* AlertManager.check_metrics
CheckMetrics(st, metrics_data, t) ==
    LET counted == [st EXCEPT !.am.stats.rule_checks_performed = @ + 1]
        s1 == CheckOverallMetrics(counted, counted.am.alert_rules, metrics_data.overall, t)
        s2 == CheckAllServices(s1, metrics_data.services, DOMAIN metrics_data.services, t)
    IN  CheckAllEndpoints(s2, metrics_data.endpoints, DOMAIN metrics_data.endpoints, t)

\* acknowledge_alert returning True for every id
AcknowledgeResultAlwaysTrue(am, alert_id) == TRUE

\* acknowledge_alert: its return value
AcknowledgeResult(am, alert_id) == alert_id \in DOMAIN am.active_alerts

\* acknowledge_alert leaving the status as it is
AcknowledgeAlertKeepsStatus(am, heap, alert_id, t) ==
    IF alert_id \in DOMAIN am.active_alerts
    THEN [heap EXCEPT ![am.active_alerts[alert_id]].acknowledged_at = t]
    ELSE heap

\* acknowledge_alert looking the alert up among all Alert objects, resolved ones too
AcknowledgeAlertAnyAlert(am, heap, alert_id, t) ==
    [i \in 1..Len(heap) |->
        IF heap[i].id = alert_id THEN [heap[i] EXCEPT !.acknowledged_at = t] ELSE heap[i]]

\* acknowledge_alert: the Alert objects after it
AcknowledgeAlert(am, heap, alert_id, t) ==
    IF alert_id \in DOMAIN am.active_alerts
    THEN [heap EXCEPT ![am.active_alerts[alert_id]].status = ACKNOWLEDGED,
                      ![am.active_alerts[alert_id]].acknowledged_at = t]
    ELSE heap

-----------------------------------------------------------------------------
(* EventConsumer *)

\* EventConsumer.__init__: the statistics, and the messages whose handler has not returned
EventConsumerInit ==
    [stats     |-> [total_consumed       |-> 0,
                    successful_processed |-> 0,
                    failed_processed     |-> 0,
                    invalid_messages     |-> 0],
     delivered |-> 0,
     in_flight |-> {}]

\* what decoding the body does: it gives an event, raises one of the errors the inner
\* except names (JSONDecodeError, ValueError, TypeError), or raises another Exception
DecodeOutcomes == {"decoded", "invalid", "unexpected"}

\* what the awaited handler does: it returns, raises an Exception, or the task is
\* cancelled while it waits (CancelledError is not an Exception)
HandlerOutcomes == {"returned", "raised", "cancelled"}

\* `async with message.process()` that acknowledges however the block is left
ProcessExitAlwaysAcks(exception) == [how |-> "ack", requeue |-> FALSE]

\* `async with message.process()`: leaving the block without an exception acknowledges the
\* message, leaving it with one rejects it; process() is called without requeue=True
ProcessExit(exception) == [how |-> IF exception THEN "reject" ELSE "ack", requeue |-> FALSE]

\* _process_message up to the handler call: the statistics after it
ConsumeMessage(stats, decode) ==
    [stats EXCEPT !.total_consumed   = @ + 1,
                  !.invalid_messages = IF decode = "invalid" THEN @ + 1 ELSE @]

\* how _process_message leaves the block when decoding fails: by `return` from the inner
\* except, or by the `raise` of the outer `except Exception`
DecodeFailureExit(decode) == ProcessExit(decode = "unexpected")

\* the handler's except clause counting the message as failed and as successful
HandlerDoneCountsFailureTwice(stats, outcome) ==
    [stats EXCEPT !.successful_processed = IF outcome \in {"returned", "raised"} THEN @ + 1 ELSE @,
                  !.failed_processed     = IF outcome = "raised" THEN @ + 1 ELSE @]

\* _process_message after the handler call: the statistics after it
HandlerDone(stats, outcome) ==
    [stats EXCEPT !.successful_processed = IF outcome = "returned" THEN @ + 1 ELSE @,
                  !.failed_processed     = IF outcome = "raised" THEN @ + 1 ELSE @]

\* how _process_message leaves the block after the handler: a handler exception is
\* caught by the inner `except Exception` and not raised again, a cancellation passes
\* both `except Exception` clauses
HandlerExit(outcome) == ProcessExit(outcome = "cancelled")

-----------------------------------------------------------------------------
(* StorageManager *)

\* StorageManager.__init__ (redis_client and postgres_pool are set by initialize())
StorageManagerInit(batch_size, batch_timeout_seconds, t) ==
    [batch_size            |-> batch_size,
     batch_timeout_seconds |-> batch_timeout_seconds,
     pending_metrics       |-> <<>>,
     last_batch_time       |-> t,
     stats                 |-> [total_postgres_writes |-> 0,
                                total_redis_writes    |-> 0,
                                batch_writes          |-> 0,
                                failed_writes         |-> 0],
     executing             |-> <<>>,   \* <<batch_data>> while conn.executemany is awaited
     rows_created          |-> 0]      \* identity of the row objects (history)

CacheKey(kind, name) ==
    <<"metrics", ":", kind, ":">> \o (IF name = <<>> THEN <<>> ELSE name \o Colon) \o <<"current">>

\* the keys _update_redis_cache sets with one pipeline
CacheKeys(metrics_data) ==
    {CacheKey("overall", <<>>), CacheKey("snapshot", <<>>)}
        \cup {CacheKey("service", k) : k \in DOMAIN metrics_data.services}
        \cup {CacheKey("endpoint", k) : k \in DOMAIN metrics_data.endpoints}

\* UpdateRedisCache that leaves the cache alone
UpdateRedisCacheSkipped(c, metrics_data, redis_ok) == c

\* _update_redis_cache: the cache after pipeline.execute(), which writes all keys or fails
UpdateRedisCache(c, metrics_data, redis_ok) ==
    IF redis_ok
    THEN [k \in (DOMAIN c) \cup CacheKeys(metrics_data) |->
            IF k \in CacheKeys(metrics_data) THEN metrics_data.timestamp ELSE c[k]]
    ELSE c

Row(uid, metrics_data, metric_type, service_name, endpoint, metrics) ==
    [uid          |-> uid,
     timestamp    |-> metrics_data.timestamp,
     window_start |-> metrics_data.timestamp - metrics_data.window_size_seconds,
     window_end   |-> metrics_data.timestamp,
     service_name |-> service_name,
     endpoint     |-> endpoint,
     metric_type  |-> metric_type,
     metrics      |-> metrics]

RECURSIVE SetToSeq(_)
SetToSeq(S) == IF S = {} THEN <<>> ELSE LET x == CHOOSE y \in S : TRUE IN <<x>> \o SetToSeq(S \ {x})

\* _add_to_batch: the rows appended for one snapshot (overall, services, endpoints)
BatchRows(metrics_data, first_uid) ==
    LET svc == SetToSeq(DOMAIN metrics_data.services)
        eps == SetToSeq(DOMAIN metrics_data.endpoints)
    IN  <<Row(first_uid, metrics_data, "overall", None, None, metrics_data.overall)>>
        \o [i \in 1..Len(svc) |->
                Row(first_uid + i, metrics_data, "service", svc[i], None,
                    metrics_data.services[svc[i]])]
        \o [i \in 1..Len(eps) |->
                Row(first_uid + Len(svc) + i, metrics_data, "endpoint",
                    SplitEndpointKey(eps[i]).service_name, SplitEndpointKey(eps[i]).endpoint,
                    metrics_data.endpoints[eps[i]])]

AddToBatch(sm, metrics_data) ==
    LET rows == BatchRows(metrics_data, sm.rows_created + 1)
    IN  [sm EXCEPT !.pending_metrics = @ \o rows,
                   !.rows_created    = @ + Len(rows)]

\* the test of _check_batch_write without the comparison of the times
BatchWriteDueSizeOnly(sm, t) == Len(sm.pending_metrics) >= sm.batch_size

\* the test of _check_batch_write with > in place of >=
BatchWriteDueLate(sm, t) ==
    \/ Len(sm.pending_metrics) > sm.batch_size
    \/ t - sm.last_batch_time > sm.batch_timeout_seconds

\* the test of _check_batch_write
BatchWriteDue(sm, t) ==
    \/ Len(sm.pending_metrics) >= sm.batch_size
    \/ t - sm.last_batch_time >= sm.batch_timeout_seconds

\* the except branch of _execute_batch_write without `self.pending_metrics.clear()`
BatchWriteFailedKeepsPending(sm, t) ==
    [sm EXCEPT !.stats.failed_writes = @ + 1,
               !.last_batch_time     = t,
               !.executing           = <<>>]

\* the except branch of _execute_batch_write
BatchWriteFailed(sm, t) ==
    [sm EXCEPT !.stats.failed_writes = @ + 1,
               !.pending_metrics     = <<>>,
               !.last_batch_time     = t,
               !.executing           = <<>>]

\* _execute_batch_write after conn.executemany returned
BatchWriteDone(sm, t) ==
    [sm EXCEPT !.stats.total_postgres_writes = @ + Len(sm.executing[1]),
               !.stats.batch_writes          = @ + 1,
               !.pending_metrics             = <<>>,
               !.last_batch_time             = t,
               !.executing                   = <<>>]

\* _execute_batch_write up to `await conn.executemany(insert_sql, batch_data)`
BatchWriteBegin(sm, acquire_ok, t) ==
    IF sm.pending_metrics = <<>> THEN sm
    ELSE IF ~acquire_ok THEN BatchWriteFailed(sm, t)
    ELSE [sm EXCEPT !.executing = <<sm.pending_metrics>>]

\* store_metrics after _update_redis_cache: _add_to_batch, then _check_batch_write
StoreMetricsBatch(sm, metrics_data, acquire_ok, t) ==
    LET added == AddToBatch(sm, metrics_data)
    IN  IF BatchWriteDue(added, t) THEN BatchWriteBegin(added, acquire_ok, t) ELSE added

-----------------------------------------------------------------------------
(* MetricsProcessor and the lifecycle of its connections *)

\* the four coroutines of _start_background_tasks
Loops == {"processing", "storage", "alert_check", "health_check"}

\* MetricsProcessor.__init__: no task exists. A task is "running" (suspended at an await
\* of its loop), "cancelled" (task.cancel() was called, the CancelledError is not yet
\* thrown into it) or "done"
MetricsProcessorInit ==
    [is_running  |-> FALSE,
     is_stopping |-> FALSE,
     tasks       |-> [l \in Loops |-> "none"],
     stats       |-> [errors_count             |-> 0,
                      total_storage_operations |-> 0,
                      total_alert_checks       |-> 0],
     pc          |-> "idle",                 \* the await stop() is suspended at
     last_tick   |-> "none",                 \* history: the loop that completed an iteration
                                             \* last, "none" since an iteration raised
     refused     |-> {},                     \* history: rows dropped because pool.acquire raised
     raised      |-> "none",                 \* history: the loop an iteration of which raised last
     handling    |-> <<>>,                   \* the aggregator states still to come of a
                                             \* _handle_event call suspended at an await
     abandoned   |-> <<>>]                   \* history: the batches of the inserts that the
                                             \* cancellation of the storage loop interrupted

\* EventConsumer.__init__ then connect(), StorageManager.initialize(): the connection,
\* the pool and the Redis client are open, nothing is consumed. `consumers` are the
\* consumer tags the broker delivers the queue to.
ConnectionsInit ==
    [is_consuming  |-> FALSE,
     consumer_tag  |-> None,
     consumers     |-> {},
     connection    |-> "open",
     postgres_pool |-> "open",
     redis_client  |-> "open",
     stopped       |-> FALSE,    \* history: stop_consuming completed on a consuming consumer
     handled_after |-> 0]        \* history: handler invocations after that

\* the consumer tag the broker generates for queue.consume(callback)
BrokerTag == <<"ctag1">>

\* start_consuming: `await self.queue.consume(self._process_message)` subscribes, the
\* consumer tag it returns is not kept
StartConsuming(conn) ==
    [conn EXCEPT !.consumers    = @ \cup {BrokerTag},
                 !.is_consuming = TRUE]

\* start_consuming keeping the consumer tag that queue.consume returns
StartConsumingKeepsTag(conn) ==
    [conn EXCEPT !.consumers    = @ \cup {BrokerTag},
                 !.consumer_tag = BrokerTag,
                 !.is_consuming = TRUE]

\* stop_consuming: queue.cancel(self._consumer_tag) ends the subscription that carries the
\* tag, if there is one; it returns (cancel_ok) or raises, which is caught and logged
StopConsuming(conn, cancel_ok) ==
    IF conn.is_consuming
    THEN [conn EXCEPT !.consumers    = @ \ {conn.consumer_tag},
                      !.is_consuming = IF cancel_ok THEN FALSE ELSE @,
                      !.stopped      = TRUE]
    ELSE conn

\* disconnect: stop_consuming if still consuming, then connection.close(), which ends
\* every subscription of the connection
Disconnect(conn, cancel_ok) ==
    [StopConsuming(conn, cancel_ok) EXCEPT !.consumers  = {},
                                           !.connection = "closed"]

\* stop(): `for task in self._processing_tasks: task.cancel()`
CancelTasks(tasks) == [l \in Loops |-> IF tasks[l] = "running" THEN "cancelled" ELSE tasks[l]]

\* the `while self._is_running and not self._is_stopping` test of a loop
LoopContinues(p) == p.is_running /\ ~p.is_stopping

\* the state of a task when an iteration ends: it sleeps again or leaves the while loop
AfterIteration(p) == IF LoopContinues(p) THEN "running" ELSE "done"

\* a loop whose `except Exception` clause ends the loop
AfterExceptionLoopEnds(p) == "done"

\* the `except Exception` clause of a loop: the error is logged and counted, and after
\* a short sleep the while test is evaluated again
AfterException(p) == AfterIteration(p)

\* the snapshot a loop takes: get_current_metrics() with its timestamp
CurrentSnapshot(agg, t) ==
    LET m == get_current_metrics(agg)
    IN  [timestamp           |-> t,
         window_size_seconds |-> m.window_size_seconds,
         active_windows      |-> m.active_windows,
         overall             |-> m.overall,
         services            |-> m.services,
         endpoints           |-> m.endpoints]

\* _storage_loop testing every snapshot for data with >= 0
HasDataAlways(metrics_data) == metrics_data.overall.total_requests >= 0

\* _storage_loop: `current_metrics.get("overall", {}).get("total_requests", 0) > 0`
HasData(metrics_data) == metrics_data.overall.total_requests > 0

-----------------------------------------------------------------------------
(* Inputs of the aggregator *)

\* bounds of the model
MaxEvents      == 5     \* events ingested in a run of SpecWindow
MaxCountEvents == 3     \* events ingested in a run of SpecCount

SvcA    == <<"a">>
SvcB    == <<"b">>
Predict == <<"/", "p">>

Services  == {SvcA, SvcB}
Endpoints == {Predict}

\* constructor arguments <<window_size_seconds, sub_window_seconds>>: the default and a short window
DefaultConfig == <<60, 5>>
Configs       == {DefaultConfig, <<10, 5>>}

\* event timestamps (seconds): two in one bucket, the next bucket, and one a window later
EventTimes == {0, 4, 5, 65}
\* timestamps of two buckets of one window
CountTimes == {0, 7}

StatusCodes   == {200, 500}
ResponseTimes == {0, 100}

\* response events that differ in their timestamp only
WindowEvents == {from_request_response(SvcA, Predict, 200, 100, t) : t \in EventTimes}

\* events of every service, status and latency, all inside one window
CountEvents ==
    {from_request_response(s, e, sc, rt, t) :
        s \in Services, e \in Endpoints, sc \in StatusCodes, rt \in ResponseTimes, t \in CountTimes}

-----------------------------------------------------------------------------
(* The aggregator's operations *)

\* MetricsProcessor._handle_event -> MetricsAggregator.add_event(event)
add_event(event) ==
    /\ aggregator' = AggregatorAddEvent(aggregator, event)
    /\ ingested' = Append(ingested, event)
    /\ UNCHANGED <<processor_vars, alert_vars, consumer_vars, storage_vars>>

AddWindowEvent ==
    /\ Len(ingested) < MaxEvents
    /\ \E event \in WindowEvents : add_event(event)

AddCountEvent ==
    /\ Len(ingested) < MaxCountEvents
    /\ \E event \in CountEvents : add_event(event)

MaxIngest == 2        \* events ingested in a run of SpecIngest
MaxTicks  == 13       \* ticks of the clock in a run of SpecIngest

\* the seconds between two ticks: the default storage_interval_seconds
TickSeconds == 5

EventTypes == {API_REQUEST, API_RESPONSE, API_ERROR, SYSTEM_HEALTH}

\* the events of every type a producer stamps at time t
EventsAt(t) == {MetricsEvent(ty, t, SvcA, Predict, 200, 100) : ty \in EventTypes}

\* an event stamped with the current time reaches the aggregator
AddEventNow ==
    /\ Len(ingested) < MaxIngest
    /\ \E event \in EventsAt(now) : add_event(event)

\* time passes without an event
TickIngest ==
    /\ now < MaxTicks * TickSeconds
    /\ now' = now + TickSeconds
    /\ UNCHANGED <<processor_vars, aggregator_vars, alert_manager, alerts, notified, last_call,
                   consumer_vars, storage_vars>>

-----------------------------------------------------------------------------
(* Inputs of the alert manager *)

MaxAlerts    == 3     \* Alert objects created in a run
MaxChecks    == 3     \* check_metrics calls in a run
MaxCallbacks == 1     \* callbacks registered in a run

\* the metrics of one scope, in hundredths: a healthy scope, and one with 8 % errors
MetricsOK ==
    [qps |-> 200, error_rate |-> 0, avg_response_time |-> 10000, p95_response_time |-> 10000,
     p99_response_time |-> 10000, total_requests |-> 120, total_errors |-> 0]
MetricsErr ==
    [qps |-> 200, error_rate |-> 800, avg_response_time |-> 10000, p95_response_time |-> 10000,
     p99_response_time |-> 10000, total_requests |-> 125, total_errors |-> 10]

ScopeMetricsIn == {MetricsOK, MetricsErr}

KeyAPredict == EndpointKey(SvcA, Predict)

Snapshot(overall, services, endpoints, t) ==
    [timestamp |-> t, window_size_seconds |-> 60, active_windows |-> 1,
     overall |-> overall, services |-> services, endpoints |-> endpoints]

\* snapshots of one service with one endpoint: healthy, failing in every scope, failing in
\* the service only; and a failing snapshot in which no service appears
AlertSnapshots ==
    {Snapshot(MetricsOK,  [k \in {SvcA} |-> MetricsOK],  [k \in {KeyAPredict} |-> MetricsOK], 0),
     Snapshot(MetricsErr, [k \in {SvcA} |-> MetricsErr], [k \in {KeyAPredict} |-> MetricsErr], 0),
     Snapshot(MetricsOK,  [k \in {SvcA} |-> MetricsErr], [k \in {KeyAPredict} |-> MetricsOK], 0),
     Snapshot(MetricsErr, << >>, << >>, 0)}

\* the built-in high_error_rate rule switched off
HighErrorRateOff == [HighErrorRate EXCEPT !.enabled = FALSE]

RulesIn == {HighErrorRateOff}

RuleIdsIn == {HighErrorRate.id}

UnknownAlertId == <<"no_such_alert">>

\* the ids acknowledge_alert is called with: of every alert ever created, and an unknown one
AlertIdsIn == {alerts[i].id : i \in 1..Len(alerts)} \cup {UnknownAlertId}

-----------------------------------------------------------------------------
(* The alert manager's operations *)

Call(op, result) == [op |-> op, result |-> result]

\* one round of _alert_check_loop: after the sleep, AlertManager.check_metrics(metrics_data)
check_metrics(metrics_data) ==
    LET st == CheckMetrics(AlertState(alert_manager, alerts, notified), metrics_data, now + 1)
    IN  /\ Len(st.alerts) <= MaxAlerts
        /\ now' = now + 1
        /\ alert_manager' = st.am
        /\ alerts' = st.alerts
        /\ notified' = st.notified
        /\ UNCHANGED <<processor_vars, last_call, aggregator_vars, consumer_vars, storage_vars>>

\* AlertManager.acknowledge_alert(alert_id)
acknowledge_alert(alert_id) ==
    /\ alerts' = AcknowledgeAlert(alert_manager, alerts, alert_id, now)
    /\ last_call' = Call("acknowledge_alert", AcknowledgeResult(alert_manager, alert_id))
    /\ UNCHANGED <<processor_vars, alert_manager, notified, now, aggregator_vars, consumer_vars, storage_vars>>

\* AlertManager.add_alert_rule(rule)
add_alert_rule(rule) ==
    /\ alert_manager' = AddAlertRule(alert_manager, rule)
    /\ UNCHANGED <<processor_vars, alerts, notified, now, last_call, aggregator_vars, consumer_vars, storage_vars>>

\* AlertManager.remove_alert_rule(rule_id)
remove_alert_rule(rule_id) ==
    /\ alert_manager' = RemoveAlertRule(alert_manager, rule_id)
    /\ UNCHANGED <<processor_vars, alerts, notified, now, last_call, aggregator_vars, consumer_vars, storage_vars>>

\* AlertManager.add_alert_callback(callback); MetricsProcessor.initialize registers its
\* callback before the alert loop starts
add_alert_callback ==
    /\ alert_manager.alert_callbacks < MaxCallbacks
    /\ alert_manager.stats.rule_checks_performed = 0
    /\ alert_manager' = [alert_manager EXCEPT !.alert_callbacks = @ + 1]
    /\ UNCHANGED <<processor_vars, alerts, notified, now, last_call, aggregator_vars, consumer_vars, storage_vars>>

CheckMetricsCall ==
    /\ alert_manager.stats.rule_checks_performed < MaxChecks
    /\ \E metrics_data \in AlertSnapshots : check_metrics(metrics_data)

AcknowledgeCall == \E alert_id \in AlertIdsIn : acknowledge_alert(alert_id)

AddRuleCall == \E rule \in RulesIn : add_alert_rule(rule)

RemoveRuleCall == \E rule_id \in RuleIdsIn : remove_alert_rule(rule_id)

-----------------------------------------------------------------------------
(* The consumer's operations *)

MaxMessages == 4      \* messages the broker delivers in a run

\* what the broker is told about a message, and after which outcome (history)
Settle(message, exit, outcome) ==
    [settled EXCEPT ![message] =
        Append(@, [how |-> exit.how, requeue |-> exit.requeue, outcome |-> outcome])]

\* the broker delivers the next message: _process_message runs up to the handler call
DeliverMessage ==
    /\ consumer.delivered < MaxMessages
    /\ \E decode \in DecodeOutcomes :
        LET message == consumer.delivered + 1
        IN  /\ consumer' = [consumer EXCEPT
                                !.delivered = message,
                                !.stats     = ConsumeMessage(@, decode),
                                !.in_flight = IF decode = "decoded" THEN @ \cup {message} ELSE @]
            /\ settled' = IF decode = "decoded" THEN settled
                          ELSE Settle(message, DecodeFailureExit(decode), decode)
    /\ UNCHANGED <<processor_vars, aggregator_vars, alert_vars, storage_vars>>

\* the awaited handler of a message returns or raises: _process_message runs to its end
HandlerFinishes ==
    /\ \E message \in consumer.in_flight, outcome \in HandlerOutcomes :
        /\ consumer' = [consumer EXCEPT !.stats     = HandlerDone(@, outcome),
                                        !.in_flight = @ \ {message}]
        /\ settled' = Settle(message, HandlerExit(outcome), outcome)
    /\ UNCHANGED <<processor_vars, aggregator_vars, alert_vars, storage_vars>>

-----------------------------------------------------------------------------
(* The storage manager's operations *)

MaxStores == 3        \* store_metrics calls in a run
MaxClock  == 5        \* last value of the clock in SpecStorage

\* constructor arguments <<batch_size, batch_timeout_seconds>>: the default and a small batch
DefaultStorageConfig == <<100, 5>>
StorageConfigs       == {DefaultStorageConfig, <<4, 5>>}

\* the snapshots _storage_loop stores: it skips those without requests, so a stored
\* snapshot has a service and an endpoint; healthy or failing, taken at time 0
StorageSnapshots ==
    {Snapshot(m, [k \in {SvcA} |-> m], [k \in {KeyAPredict} |-> m], 0) : m \in ScopeMetricsIn}

\* StorageManager.store_metrics(metrics_data), up to the await of the insert
store_metrics(metrics_data, redis_ok, acquire_ok) ==
    /\ storage.executing = <<>>
    /\ cache' = UpdateRedisCache(cache, metrics_data, redis_ok)
    /\ storage' = [StoreMetricsBatch(storage, metrics_data, acquire_ok, now) EXCEPT
                        !.stats.total_redis_writes = IF redis_ok THEN @ + 1 ELSE @]
    /\ UNCHANGED <<processor_vars, inserted, now, alert_manager, alerts, notified, last_call,
                   aggregator_vars, consumer_vars>>

StoreMetricsCall ==
    /\ storage.rows_created < MaxStores * 3
    /\ \E metrics_data \in StorageSnapshots, redis_ok \in BOOLEAN, acquire_ok \in BOOLEAN :
            store_metrics(metrics_data, redis_ok, acquire_ok)

\* conn.executemany returns or raises: _execute_batch_write runs to its end
InsertFinishes ==
    /\ storage.executing # <<>>
    /\ \E ok \in BOOLEAN :
        /\ inserted' = Append(inserted, [rows |-> storage.executing[1], ok |-> ok])
        /\ storage' = IF ok THEN BatchWriteDone(storage, now) ELSE BatchWriteFailed(storage, now)
    /\ UNCHANGED <<processor_vars, cache, now, alert_manager, alerts, notified, last_call,
                   aggregator_vars, consumer_vars>>

TickStorage ==
    /\ now < MaxClock
    /\ now' = now + 1
    /\ UNCHANGED <<processor_vars, alert_manager, alerts, notified, last_call,
                   aggregator_vars, consumer_vars, storage_vars>>

-----------------------------------------------------------------------------
(* The processor's operations *)

MaxLoopTicks  == 1    \* iterations of a background loop that change a counter of the stats
MaxDeliveries == 1    \* messages the broker delivers in a run of the processor

\* the events the broker delivers: a successful and a failing request
ProcessorEvents == {from_request_response(SvcA, Predict, sc, 100, 0) : sc \in StatusCodes}

RowIds(rows) == {rows[i].uid : i \in 1..Len(rows)}

\* the rows a call of the storage manager dropped without handing them to executemany
\* (pool.acquire raised): those pending or created by the call that are pending no more
DroppedAtAcquire(before, after) ==
    IF after.executing # <<>> THEN {}
    ELSE (RowIds(before.pending_metrics) \cup ((before.rows_created + 1)..after.rows_created))
            \ RowIds(after.pending_metrics)

\* MetricsProcessor.start(): start_consuming, _start_background_tasks, _is_running = True
start ==
    /\ ~processor.is_running
    /\ processor.pc = "idle"
    /\ connections.connection = "open"
    /\ connections' = StartConsuming(connections)
    /\ processor' = [processor EXCEPT !.tasks      = [l \in Loops |-> "running"],
                                      !.is_running = TRUE]
    /\ UNCHANGED <<aggregator_vars, alert_vars, consumer_vars, storage_vars>>

\* the broker delivers a message to a subscribed consumer: _process_message decodes it and
\* awaits _handle_event, which hands the event to the aggregator
DeliverEvent ==
    /\ connections.consumers # {}
    /\ consumer.delivered < MaxDeliveries
    /\ \E event \in ProcessorEvents :
        /\ aggregator' = AggregatorAddEvent(aggregator, event)
        /\ ingested' = Append(ingested, event)
    /\ consumer' = [consumer EXCEPT
                        !.delivered = @ + 1,
                        !.stats     = HandlerDone(ConsumeMessage(@, "decoded"), "returned")]
    /\ settled' = Settle(consumer.delivered + 1, HandlerExit("returned"), "returned")
    /\ connections' = [connections EXCEPT
                        !.handled_after = IF connections.stopped THEN @ + 1 ELSE @]
    /\ UNCHANGED <<alert_vars, storage_vars, processor>>

\* a loop wakes from its sleep and begins an iteration
LoopBegins(l) == processor.tasks[l] = "running"

\* the processor after an iteration of loop l
Ticked(p, l) == [p EXCEPT !.last_tick = l, !.tasks[l] = AfterIteration(p)]

\* one iteration of _processing_loop
ProcessingTick ==
    /\ LoopBegins("processing")
    /\ processor' = Ticked(processor, "processing")
    /\ UNCHANGED <<aggregator_vars, alert_vars, consumer_vars, storage_vars, connections>>

\* the iterations of _storage_loop that store a snapshot are spent
StorageTicksSpent == processor.stats.total_storage_operations >= MaxLoopTicks

\* one iteration of _storage_loop, up to the await of an insert if store_metrics issues one;
\* the clock it reads stands where it stood or is one sleep further. Redis answers (its
\* failures are those of SpecStorage).
StorageTick ==
    /\ LoopBegins("storage")
    /\ storage.executing = <<>>
    /\ LET metrics_data == CurrentSnapshot(aggregator, now)
       IN  IF HasData(metrics_data)
           THEN /\ ~StorageTicksSpent
                /\ \E t \in {now, now + TickSeconds}, acquire_ok \in BOOLEAN :
                  LET stored == StoreMetricsBatch(storage, [metrics_data EXCEPT !.timestamp = t],
                                                  acquire_ok, t)
                  IN  /\ now' = t
                      /\ cache' = UpdateRedisCache(cache, [metrics_data EXCEPT !.timestamp = t],
                                                   TRUE)
                      /\ storage' = [stored EXCEPT !.stats.total_redis_writes = @ + 1]
                      /\ processor' =
                            IF stored.executing # <<>>
                            THEN [processor EXCEPT !.last_tick = "storage"]
                            ELSE [Ticked(processor, "storage") EXCEPT
                                    !.stats.total_storage_operations = @ + 1,
                                    !.refused = @ \cup DroppedAtAcquire(storage, stored)]
           ELSE /\ processor' = Ticked(processor, "storage")
                /\ UNCHANGED <<now, cache, storage>>
    /\ UNCHANGED <<aggregator_vars, alert_manager, alerts, notified, last_call,
                   consumer_vars, inserted, connections>>

\* conn.executemany returns or raises while _storage_loop awaits store_metrics
StorageInsertFinishes ==
    /\ storage.executing # <<>>
    /\ processor.tasks["storage"] = "running"
    /\ \E ok \in BOOLEAN :
        /\ inserted' = Append(inserted, [rows |-> storage.executing[1], ok |-> ok])
        /\ storage' = IF ok THEN BatchWriteDone(storage, now) ELSE BatchWriteFailed(storage, now)
    /\ processor' = [processor EXCEPT !.stats.total_storage_operations = @ + 1,
                                      !.tasks["storage"] = AfterIteration(processor)]
    /\ UNCHANGED <<aggregator_vars, alert_vars, consumer_vars, cache, connections>>

\* the iterations of _alert_check_loop are spent
AlertTicksSpent == processor.stats.total_alert_checks >= MaxLoopTicks

\* one iteration of _alert_check_loop
AlertTick ==
    /\ LoopBegins("alert_check")
    /\ ~AlertTicksSpent
    /\ LET st == CheckMetrics(AlertState(alert_manager, alerts, notified),
                              CurrentSnapshot(aggregator, now), now)
       IN  /\ alert_manager' = st.am
           /\ alerts' = st.alerts
           /\ notified' = st.notified
    /\ processor' = [Ticked(processor, "alert_check") EXCEPT !.stats.total_alert_checks = @ + 1]
    /\ UNCHANGED <<now, last_call, aggregator_vars, consumer_vars, storage_vars, connections>>

\* one iteration of _health_check_loop (_perform_health_check only logs)
HealthTick ==
    /\ LoopBegins("health_check")
    /\ processor' = Ticked(processor, "health_check")
    /\ UNCHANGED <<aggregator_vars, alert_vars, consumer_vars, storage_vars, connections>>

\* an iteration of the storage, alert-check or health-check loop raises an Exception:
\* the `except Exception` clause logs it, counts it (not in the health check) and sleeps
LoopRaises ==
    \E l \in Loops \ {"processing"} :
        /\ LoopBegins(l)
        /\ l = "storage" => storage.executing = <<>>
        /\ l # "health_check" => processor.stats.errors_count < MaxLoopTicks
        /\ processor' = [processor EXCEPT
                            !.last_tick          = "none",
                            !.raised             = l,
                            !.stats.errors_count = IF l = "health_check" THEN @ ELSE @ + 1,
                            !.tasks[l]           = AfterException(processor)]
        /\ UNCHANGED <<aggregator_vars, alert_vars, consumer_vars, storage_vars, connections>>

\* the tasks in the order _start_background_tasks created them
TaskOrder == <<"processing", "storage", "alert_check", "health_check">>

\* the cancelled task the event loop resumes next: the tasks are woken in the order
\* stop() cancelled them
NextCancelled(tasks) ==
    LET cancelled == {i \in 1..Len(TaskOrder) : tasks[TaskOrder[i]] = "cancelled"}
    IN  IF cancelled = {} THEN {}
        ELSE {TaskOrder[CHOOSE i \in cancelled : \A j \in cancelled : i <= j]}

\* the CancelledError is thrown into a cancelled task at its await: `break`. An insert
\* the storage loop awaited is abandoned, its rows stay in pending_metrics
LoopCancelled ==
    \E l \in NextCancelled(processor.tasks) :
        /\ processor.tasks[l] = "cancelled"
        /\ processor' = [processor EXCEPT
                            !.tasks[l]  = "done",
                            !.abandoned = IF l = "storage" THEN @ \o storage.executing ELSE @]
        /\ storage' = IF l = "storage" THEN [storage EXCEPT !.executing = <<>>] ELSE storage
        /\ UNCHANGED <<aggregator_vars, alert_vars, consumer_vars, inserted, cache, connections>>

\* MetricsProcessor.stop() up to `await self.event_consumer.stop_consuming()`
StopBegins ==
    /\ processor.is_running
    /\ processor.pc = "idle"
    /\ processor' = [processor EXCEPT !.is_stopping = TRUE, !.pc = "stop_consuming"]
    /\ UNCHANGED <<aggregator_vars, alert_vars, consumer_vars, storage_vars, connections>>

\* stop_consuming returns; stop() cancels the tasks and awaits asyncio.gather
StopCancelsTasks ==
    /\ processor.pc = "stop_consuming"
    /\ \E cancel_ok \in BOOLEAN : connections' = StopConsuming(connections, cancel_ok)
    /\ processor' = [processor EXCEPT !.tasks = CancelTasks(@), !.pc = "gather"]
    /\ UNCHANGED <<aggregator_vars, alert_vars, consumer_vars, storage_vars>>

\* gather returns when every task is done; stop() calls storage_manager.force_batch_write()
StopForceBatchWrite ==
    /\ processor.pc = "gather"
    /\ \A l \in Loops : processor.tasks[l] = "done"
    /\ \E acquire_ok \in BOOLEAN :
        LET begun == BatchWriteBegin(storage, acquire_ok, now)
        IN  /\ storage' = begun
            /\ processor' = [processor EXCEPT !.pc = "force_batch_write",
                                              !.refused = @ \cup DroppedAtAcquire(storage, begun)]
    /\ UNCHANGED <<aggregator_vars, alert_vars, consumer_vars, inserted, cache, connections>>

\* conn.executemany returns or raises while stop() awaits a force_batch_write
StopInsertFinishes ==
    /\ storage.executing # <<>>
    /\ processor.pc \in {"force_batch_write", "close"}
    /\ \E ok \in BOOLEAN :
        /\ inserted' = Append(inserted, [rows |-> storage.executing[1], ok |-> ok])
        /\ storage' = IF ok THEN BatchWriteDone(storage, now) ELSE BatchWriteFailed(storage, now)
    /\ UNCHANGED <<aggregator_vars, alert_vars, consumer_vars, cache, processor_vars>>

\* force_batch_write returned; stop() awaits event_consumer.disconnect()
StopDisconnects ==
    /\ processor.pc = "force_batch_write"
    /\ storage.executing = <<>>
    /\ \E cancel_ok \in BOOLEAN : connections' = Disconnect(connections, cancel_ok)
    /\ processor' = [processor EXCEPT !.pc = "disconnect"]
    /\ UNCHANGED <<aggregator_vars, alert_vars, consumer_vars, storage_vars>>

\* disconnect returned; stop() awaits storage_manager.close(), which begins with
\* force_batch_write()
StopClosesStorage ==
    /\ processor.pc = "disconnect"
    /\ \E acquire_ok \in BOOLEAN :
        LET begun == BatchWriteBegin(storage, acquire_ok, now)
        IN  /\ storage' = begun
            /\ processor' = [processor EXCEPT !.pc = "close",
                                              !.refused = @ \cup DroppedAtAcquire(storage, begun)]
    /\ UNCHANGED <<aggregator_vars, alert_vars, consumer_vars, inserted, cache, connections>>

\* close() closes the pool and the Redis client; stop() resets its flags and returns
StopReturns ==
    /\ processor.pc = "close"
    /\ storage.executing = <<>>
    /\ connections' = [connections EXCEPT !.postgres_pool = "closed", !.redis_client = "closed"]
    /\ processor' = [processor EXCEPT !.is_running = FALSE, !.is_stopping = FALSE,
                                      !.pc = "returned"]
    /\ UNCHANGED <<aggregator_vars, alert_vars, consumer_vars, storage_vars>>

-----------------------------------------------------------------------------
(* Readers of the aggregator *)

MaxSnapshotEvents == 3    \* events ingested in a run of SpecSnapshot

\* a service name that is the empty string
NoName == <<>>

\* response events of two services and of a producer without a name, healthy and failing,
\* in two buckets of one window
SnapshotEvents ==
    {MetricsEvent(API_RESPONSE, t, s, Predict, sc, 100) :
        s \in Services \cup {NoName}, sc \in StatusCodes, t \in CountTimes}

AddSnapshotEvent ==
    /\ Len(ingested) < MaxSnapshotEvents
    /\ \E event \in SnapshotEvents : add_event(event)

\* get_current_metrics that hands out the current sub-window and starts a new one
AfterReadDrained(agg) == [agg EXCEPT !.current_window = <<>>]

\* the aggregator after get_current_metrics: the method assigns to no attribute of self, and
\* the lists and dicts it fills are its own
AfterRead(agg) == agg

\* a reader: MetricsProcessor.get_current_metrics() -> MetricsAggregator.get_current_metrics();
\* the result is kept with the number of add_event calls made before it
ReadMetrics ==
    /\ last_call' = Call("get_current_metrics",
                         [metrics |-> CurrentSnapshot(aggregator, now), events |-> Len(ingested)])
    /\ aggregator' = AfterRead(aggregator)
    /\ UNCHANGED <<processor_vars, ingested, alert_manager, alerts, notified, now,
                   consumer_vars, storage_vars>>

\* add_event yielding to the event loop between the overall counters and those of the
\* service and the endpoint
VisibleStatesWithYield(agg, event) ==
    <<AggregatorAddEvent(agg, [event EXCEPT !.service_name = <<>>, !.api_endpoint = <<>>]),
      AggregatorAddEvent(agg, event)>>

\* the states of the aggregator that other tasks can observe from the call of
\* _handle_event(event) on: add_event and TimeWindow.add_event are plain functions with no
\* await, and every task runs on the one event loop, so only the state after the whole call
VisibleStates(agg, event) == <<AggregatorAddEvent(agg, event)>>

\* the broker delivers a message and _handle_event runs up to its next suspension, or a
\* suspended _handle_event resumes; the message is settled when the handler has returned
HandleEvent ==
    /\ IF processor.handling = <<>>
       THEN /\ connections.consumers # {}
            /\ consumer.delivered < MaxDeliveries
            /\ \E event \in ProcessorEvents :
                /\ aggregator' = Head(VisibleStates(aggregator, event))
                /\ processor' = [processor EXCEPT !.handling = Tail(VisibleStates(aggregator, event))]
                /\ ingested' = Append(ingested, event)
            /\ consumer' = [consumer EXCEPT
                                !.delivered = @ + 1,
                                !.stats     = IF processor'.handling = <<>>
                                              THEN HandlerDone(ConsumeMessage(@, "decoded"), "returned")
                                              ELSE ConsumeMessage(@, "decoded")]
       ELSE /\ aggregator' = Head(processor.handling)
            /\ processor' = [processor EXCEPT !.handling = Tail(@)]
            /\ consumer' = [consumer EXCEPT
                                !.stats = IF processor'.handling = <<>>
                                          THEN HandlerDone(@, "returned") ELSE @]
            /\ UNCHANGED ingested
    /\ IF processor'.handling = <<>>
       THEN /\ settled' = Settle(consumer'.delivered, HandlerExit("returned"), "returned")
            /\ connections' = [connections EXCEPT
                                !.handled_after = IF connections.stopped THEN @ + 1 ELSE @]
       ELSE UNCHANGED <<settled, connections>>
    /\ UNCHANGED <<alert_vars, storage_vars>>

-----------------------------------------------------------------------------
(* Latency samples *)

MaxSamples == 21      \* events ingested in a run of SpecSamples

Sample(response_time_ms) == MetricsEvent(API_RESPONSE, 0, SvcA, Predict, 200, response_time_ms)

\* a fast request (1 ms) and a slow one (100 ms)
FastSample == Sample(1)
SlowSample == Sample(100)

\* the samples fed are runs of fast requests followed by slow ones
AddFastSample ==
    /\ Len(ingested) < MaxSamples
    /\ \A i \in 1..Len(ingested) : ingested[i] = FastSample
    /\ add_event(FastSample)

AddSlowSample ==
    /\ Len(ingested) < MaxSamples
    /\ add_event(SlowSample)

-----------------------------------------------------------------------------
(* Scoped rules *)

\* a rule of one service, and a rule of one endpoint of that service
ServiceRule  == AlertRule(<<"s">>, "error_rate", ">", 500, "high", SvcA, None, 60, TRUE)
EndpointRule == AlertRule(<<"e">>, "error_rate", ">", 500, "high", SvcA, Predict, 60, TRUE)

ScopedRules == <<ServiceRule, EndpointRule>>

RECURSIVE RemoveRules(_, _)
RemoveRules(am, rules) ==
    IF rules = <<>> THEN am ELSE RemoveRules(RemoveAlertRule(am, Head(rules).id), Tail(rules))

RECURSIVE AddRules(_, _)
AddRules(am, rules) ==
    IF rules = <<>> THEN am ELSE AddRules(AddAlertRule(am, Head(rules)), Tail(rules))

\* the alert manager after remove_alert_rule of each built-in rule and add_alert_rule of
\* the scoped ones
ScopedAlertManager == AddRules(RemoveRules(AlertManagerInit, DefaultRules), ScopedRules)

Health == <<"/", "h">>

\* snapshots of two services, with two endpoints of the first and one of the second: overall
\* and the second service failing, the other scopes healthy or failing
ScopedSnapshots ==
    {Snapshot(MetricsErr,
              (SvcA :> m[1]) @@ (SvcB :> MetricsErr),
              (EndpointKey(SvcA, Predict) :> m[2]) @@ (EndpointKey(SvcA, Health) :> m[3])
                    @@ (EndpointKey(SvcB, Predict) :> m[4]),
              0) : m \in [1..4 -> ScopeMetricsIn]}

CheckScopedCall ==
    /\ alert_manager.stats.rule_checks_performed < MaxChecks
    /\ \E metrics_data \in ScopedSnapshots : check_metrics(metrics_data)

-----------------------------------------------------------------------------
(* The storage manager called by several tasks *)

MaxInFlight == 2      \* inserts awaited at the same time in a run of SpecConcurrent

\* _execute_batch_write up to `await conn.executemany(insert_sql, batch_data)`, when other
\* calls may be awaiting their insert: executing holds the batch_data of each of them
ExecuteBatchWriteBegin(sm, acquire_ok, t) ==
    IF sm.pending_metrics = <<>> THEN sm
    ELSE IF ~acquire_ok
         THEN [sm EXCEPT !.stats.failed_writes = @ + 1,
                         !.pending_metrics     = <<>>,
                         !.last_batch_time     = t]
         ELSE [sm EXCEPT !.executing = Append(@, sm.pending_metrics)]

WithoutBatch(executing, i) == SubSeq(executing, 1, i - 1) \o SubSeq(executing, i + 1, Len(executing))

\* _execute_batch_write after the i-th awaited conn.executemany returned (ok) or raised
ExecuteBatchWriteEnd(sm, i, ok, t) ==
    IF ok
    THEN [sm EXCEPT !.stats.total_postgres_writes = @ + Len(sm.executing[i]),
                    !.stats.batch_writes          = @ + 1,
                    !.pending_metrics             = <<>>,
                    !.last_batch_time             = t,
                    !.executing                   = WithoutBatch(@, i)]
    ELSE [sm EXCEPT !.stats.failed_writes = @ + 1,
                    !.pending_metrics     = <<>>,
                    !.last_batch_time     = t,
                    !.executing           = WithoutBatch(@, i)]

\* a task calls store_metrics(metrics_data) while other calls may be awaiting their insert
\* (Redis answers)
StoreMetricsTask ==
    /\ storage.rows_created < MaxStores * 3
    /\ Len(storage.executing) < MaxInFlight
    /\ \E metrics_data \in StorageSnapshots, acquire_ok \in BOOLEAN :
        LET added == AddToBatch(storage, metrics_data)
            after == IF BatchWriteDue(added, now)
                     THEN ExecuteBatchWriteBegin(added, acquire_ok, now) ELSE added
        IN  /\ cache' = UpdateRedisCache(cache, metrics_data, TRUE)
            /\ storage' = [after EXCEPT !.stats.total_redis_writes = @ + 1]
    /\ UNCHANGED <<processor_vars, inserted, now, alert_manager, alerts, notified, last_call,
                   aggregator_vars, consumer_vars>>

\* a task calls force_batch_write() while other calls may be awaiting their insert
ForceBatchWriteTask ==
    /\ Len(storage.executing) < MaxInFlight
    /\ storage.pending_metrics # <<>>
    /\ \E acquire_ok \in BOOLEAN : storage' = ExecuteBatchWriteBegin(storage, acquire_ok, now)
    /\ UNCHANGED <<processor_vars, inserted, cache, now, alert_manager, alerts, notified,
                   last_call, aggregator_vars, consumer_vars>>

\* one of the awaited inserts returns or raises, and its _execute_batch_write runs to its end
InsertReturns ==
    /\ \E i \in 1..Len(storage.executing), ok \in BOOLEAN :
        /\ inserted' = Append(inserted, [rows |-> storage.executing[i], ok |-> ok])
        /\ storage' = ExecuteBatchWriteEnd(storage, i, ok, now)
    /\ UNCHANGED <<processor_vars, cache, now, alert_manager, alerts, notified, last_call,
                   aggregator_vars, consumer_vars>>

-----------------------------------------------------------------------------
(* Rules replaced, removed and misconfigured *)

\* the built-in high_error_rate rule given again, with an operator _evaluate_condition does
\* not know, and with a metric_type that no scope of a snapshot has
UnknownOperator == [HighErrorRate EXCEPT !.operator = "!="]
AbsentMetric    == [HighErrorRate EXCEPT !.metric_type = "latency"]

ReplacementRules == {HighErrorRate, HighErrorRateOff, UnknownOperator, AbsentMetric}

\* add_alert_rule with a rule whose id is that of a built-in rule: the rule is overwritten
ReplaceRuleCall == \E rule \in ReplacementRules : add_alert_rule(rule)

-----------------------------------------------------------------------------
(* Connecting and subscribing the consumer *)

\* EventConsumer.__init__: nothing is connected, no handler is set, nothing is consumed;
\* `subscribing` is start_consuming suspended at `await self.queue.consume(...)`
EventConsumerNew ==
    [is_consuming  |-> FALSE,
     consumer_tag  |-> None,
     consumers     |-> {},
     connection    |-> "none",
     queue         |-> FALSE,       \* self.queue is not None
     event_handler |-> FALSE,       \* self._event_handler is not None
     start_time    |-> NoTime,      \* stats["start_time"]
     subscribing   |-> FALSE,
     postgres_pool |-> "open",
     redis_client  |-> "open",
     stopped       |-> FALSE,
     handled_after |-> 0]

\* how far connect() gets: connect_robust raises, channel(), set_qos or declare_queue
\* raises, or every call returns
ConnectOutcomes == {"no_connection", "no_queue", "connected"}

\* connect(): self.connection is assigned first, self.queue last
Connect(conn, outcome) ==
    [conn EXCEPT !.connection = IF outcome = "no_connection" THEN @ ELSE "open",
                 !.queue      = IF outcome = "connected" THEN TRUE ELSE @]

\* start_consuming marking the consumer as consuming before the subscription is made
AwaitConsumeMarksConsuming(conn, t) ==
    [conn EXCEPT !.subscribing = TRUE, !.is_consuming = TRUE, !.start_time = t]

\* start_consuming after its two tests, up to `await self.queue.consume(...)`
AwaitConsume(conn, t) == [conn EXCEPT !.subscribing = TRUE]

\* start_consuming after queue.consume returned
Subscribed(conn, t) ==
    [StartConsuming(conn) EXCEPT !.subscribing = FALSE, !.start_time = t]

\* await consumer.connect()
ConnectCall ==
    /\ ~connections.subscribing
    /\ \E outcome \in ConnectOutcomes :
        /\ connections' = Connect(connections, outcome)
        /\ last_call' = Call("connect", outcome = "connected")
    /\ UNCHANGED <<aggregator_vars, alert_manager, alerts, notified, now, consumer_vars,
                   storage_vars, processor>>

\* consumer.set_event_handler(handler)
SetEventHandlerCall ==
    /\ ~connections.subscribing
    /\ ~connections.event_handler
    /\ connections' = [connections EXCEPT !.event_handler = TRUE]
    /\ UNCHANGED <<aggregator_vars, alert_vars, consumer_vars, storage_vars, processor>>

\* await consumer.start_consuming(), up to its return False or to the await of consume
StartConsumingCall ==
    /\ ~connections.subscribing
    /\ IF ~connections.queue \/ ~connections.event_handler
       THEN /\ last_call' = Call("start_consuming", FALSE)
            /\ UNCHANGED connections
       ELSE /\ last_call' = Call("queue.consume", TRUE)
            /\ connections' = AwaitConsume(connections, now)
    /\ UNCHANGED <<aggregator_vars, alert_manager, alerts, notified, now, consumer_vars,
                   storage_vars, processor>>

\* queue.consume returns, the subscription made, or raises
ConsumeReturns ==
    /\ connections.subscribing
    /\ \E ok \in BOOLEAN :
        /\ connections' = IF ok THEN Subscribed(connections, now)
                          ELSE [connections EXCEPT !.subscribing = FALSE]
        /\ last_call' = Call("start_consuming", ok)
    /\ UNCHANGED <<aggregator_vars, alert_manager, alerts, notified, now, consumer_vars,
                   storage_vars, processor>>

-----------------------------------------------------------------------------
(* A long history of alerts *)

\* the alert manager after high_error_rate was triggered on the overall scope and resolved
\* by the next check, PastAlerts times: the history is two alerts short of its cap
PastAlerts == AlertManagerInit.max_history_size - 2

PastAlert(i) ==
    [NewAlert(HighErrorRate, GenerateAlertId(HighErrorRate, None, None), MetricsErr.error_rate,
              None, None, 2 * i - 1)
        EXCEPT !.status = RESOLVED, !.resolved_at = 2 * i]

LongHistory ==
    [AlertManagerInit EXCEPT
        !.alert_history = [i \in 1..PastAlerts |-> i],
        !.stats = [total_alerts_triggered |-> PastAlerts,
                   total_alerts_resolved  |-> PastAlerts,
                   rule_checks_performed  |-> 2 * PastAlerts]]

\* one more round of _alert_check_loop
CheckHistoryCall ==
    /\ alert_manager.stats.rule_checks_performed < 2 * PastAlerts + MaxChecks
    /\ \E metrics_data \in AlertSnapshots :
        LET st == CheckMetrics(AlertState(alert_manager, alerts, notified), metrics_data, now + 1)
        IN  /\ Len(st.alerts) <= PastAlerts + MaxAlerts
            /\ now' = now + 1
            /\ alert_manager' = st.am
            /\ alerts' = st.alerts
            /\ notified' = st.notified
    /\ UNCHANGED <<processor_vars, last_call, aggregator_vars, consumer_vars, storage_vars>>

-----------------------------------------------------------------------------
(* Latencies of every sign *)

\* response_time_ms is a float field without a validator: negative, zero and positive
SignedResponseTimes == {0 - 50, 0, 100}

\* response events of one endpoint, succeeding or failing, with such latencies
SignedEvents ==
    {MetricsEvent(API_RESPONSE, 0, SvcA, Predict, sc, rt) :
        sc \in StatusCodes, rt \in SignedResponseTimes}

AddSignedEvent ==
    /\ Len(ingested) < MaxSnapshotEvents
    /\ \E event \in SignedEvents : add_event(event)

-----------------------------------------------------------------------------
(* The storage loop as time passes *)

\* the last value of the clock in a run of SpecDrain
Horizon == MaxClock + TickSeconds

\* the seconds the clock advances between two iterations of _storage_loop: a
\* storage_interval_seconds of one second, and the default one
SleepSeconds == {1, TickSeconds}

\* one iteration of _storage_loop after its sleep, up to the await of an insert if
\* store_metrics issues one
StorageIteration ==
    /\ LoopBegins("storage")
    /\ storage.executing = <<>>
    /\ \E d \in SleepSeconds, acquire_ok \in BOOLEAN :
        LET t            == now + d
            metrics_data == CurrentSnapshot(aggregator, t)
            stored       == StoreMetricsBatch(storage, metrics_data, acquire_ok, t)
        IN  /\ t <= Horizon
            /\ now' = t
            /\ IF HasData(metrics_data)
               THEN /\ cache' = UpdateRedisCache(cache, metrics_data, TRUE)
                    /\ storage' = [stored EXCEPT !.stats.total_redis_writes = @ + 1]
                    /\ processor' =
                            IF stored.executing # <<>>
                            THEN [processor EXCEPT !.last_tick = "storage"]
                            ELSE [Ticked(processor, "storage") EXCEPT
                                    !.stats.total_storage_operations = @ + 1,
                                    !.refused = @ \cup DroppedAtAcquire(storage, stored)]
               ELSE /\ processor' = Ticked(processor, "storage")
                    /\ UNCHANGED <<cache, storage>>
    /\ UNCHANGED <<aggregator_vars, alert_manager, alerts, notified, last_call,
                   consumer_vars, inserted, connections>>

-----------------------------------------------------------------------------
(* Names that contain a colon *)

\* service_name and api_endpoint are str fields without a validator: a service and an
\* endpoint named with a colon, and a service named as the key of another's endpoint
SvcColon      == <<"a", ":", "b">>
SvcAsKey      == <<"a", ":", "/", "p">>
EndpointColon == <<"b", ":", "/", "p">>

KeyedServices  == {SvcA, SvcColon, SvcAsKey}
KeyedEndpoints == {Predict, EndpointColon}

\* failing response events of these services and endpoints, in one window
KeyedEvents ==
    {MetricsEvent(API_RESPONSE, 0, s, e, 500, 100) : s \in KeyedServices, e \in KeyedEndpoints}

AddKeyedEvent ==
    /\ Len(ingested) < MaxSnapshotEvents
    /\ \E event \in KeyedEvents : add_event(event)

\* the alert manager after remove_alert_rule of each built-in rule but high_error_rate
ErrorRateAlertManager == AddRules(RemoveRules(AlertManagerInit, DefaultRules), <<HighErrorRate>>)

\* _alert_check_loop's check_metrics(get_current_metrics()) on the events received
CheckKeyedCall ==
    /\ ingested # <<>>
    /\ alert_manager.stats.rule_checks_performed < MaxChecks
    /\ LET st == CheckMetrics(AlertState(alert_manager, alerts, notified),
                              CurrentSnapshot(aggregator, now), now + 1)
       IN  /\ now' = now + 1
           /\ alert_manager' = st.am
           /\ alerts' = st.alerts
           /\ notified' = st.notified
    /\ UNCHANGED <<processor_vars, last_call, aggregator_vars, consumer_vars, storage_vars>>

\* _storage_loop's store_metrics(get_current_metrics()) on the events received, once the
\* buffer is empty
StoreKeyedCall ==
    /\ ingested # <<>>
    /\ storage.pending_metrics = <<>>
    /\ store_metrics(CurrentSnapshot(aggregator, now), TRUE, TRUE)

-----------------------------------------------------------------------------
(* Specifications *)

InitRest ==
    /\ ingested = <<>>
    /\ alert_manager = AlertManagerInit
    /\ alerts = <<>>
    /\ notified = <<>>
    /\ now = 0
    /\ last_call = Call("__init__", TRUE)
    /\ consumer = EventConsumerInit
    /\ settled = [m \in 1..MaxMessages |-> <<>>]
    /\ inserted = <<>>
    /\ cache = << >>
    /\ processor = MetricsProcessorInit
    /\ connections = ConnectionsInit

Init ==
    /\ aggregator = MetricsAggregatorInit(DefaultConfig[1], DefaultConfig[2])
    /\ storage = StorageManagerInit(DefaultStorageConfig[1], DefaultStorageConfig[2], 0)
    /\ InitRest

\* the aggregator under each configuration, fed events that differ in their timestamps
InitWindow ==
    /\ \E c \in Configs : aggregator = MetricsAggregatorInit(c[1], c[2])
    /\ storage = StorageManagerInit(DefaultStorageConfig[1], DefaultStorageConfig[2], 0)
    /\ InitRest

InitStorage ==
    /\ aggregator = MetricsAggregatorInit(DefaultConfig[1], DefaultConfig[2])
    /\ \E c \in StorageConfigs : storage = StorageManagerInit(c[1], c[2], 0)
    /\ InitRest

NextWindow == AddWindowEvent
SpecWindow == InitWindow /\ [][NextWindow]_vars

NextIngest == AddEventNow \/ TickIngest
SpecIngest == InitWindow /\ [][NextIngest]_vars

NextSnapshot == AddSnapshotEvent \/ ReadMetrics
SpecSnapshot == Init /\ [][NextSnapshot]_vars

NextSamples == AddFastSample \/ AddSlowSample
SpecSamples == Init /\ [][NextSamples]_vars

InitScoped ==
    /\ aggregator = MetricsAggregatorInit(DefaultConfig[1], DefaultConfig[2])
    /\ storage = StorageManagerInit(DefaultStorageConfig[1], DefaultStorageConfig[2], 0)
    /\ ingested = <<>>
    /\ alert_manager = ScopedAlertManager
    /\ alerts = <<>>
    /\ notified = <<>>
    /\ now = 0
    /\ last_call = Call("add_alert_rule", TRUE)
    /\ consumer = EventConsumerInit
    /\ settled = [m \in 1..MaxMessages |-> <<>>]
    /\ inserted = <<>>
    /\ cache = << >>
    /\ processor = MetricsProcessorInit
    /\ connections = ConnectionsInit

NextScoped == CheckScopedCall
SpecScoped == InitScoped /\ [][NextScoped]_vars

NextConcurrent == StoreMetricsTask \/ ForceBatchWriteTask \/ InsertReturns \/ TickStorage
SpecConcurrent == InitStorage /\ [][NextConcurrent]_vars


\* the processor after initialize(): _handle_alert is registered as alert callback
InitProcessor ==
    /\ aggregator = MetricsAggregatorInit(DefaultConfig[1], DefaultConfig[2])
    /\ storage = StorageManagerInit(DefaultStorageConfig[1], DefaultStorageConfig[2], 0)
    /\ ingested = <<>>
    /\ alert_manager = [AlertManagerInit EXCEPT !.alert_callbacks = 1]
    /\ alerts = <<>>
    /\ notified = <<>>
    /\ now = 0
    /\ last_call = Call("__init__", TRUE)
    /\ consumer = EventConsumerInit
    /\ settled = [m \in 1..MaxMessages |-> <<>>]
    /\ inserted = <<>>
    /\ cache = << >>
    /\ processor = MetricsProcessorInit
    /\ connections = ConnectionsInit

\* the running processor: the broker delivers, the four loops iterate
NextReaders ==
    \/ start
    \/ HandleEvent
    \/ StorageTick
    \/ StorageInsertFinishes
    \/ AlertTick
    \/ ReadMetrics
SpecReaders == InitProcessor /\ [][NextReaders]_vars

NextLoops ==
    \/ start
    \/ DeliverEvent
    \/ ProcessingTick
    \/ StorageTick
    \/ StorageInsertFinishes
    \/ AlertTick
    \/ HealthTick
    \/ LoopRaises

\* ENABLED <<StorageTick>>_vars, written out: the loop sleeps, no insert is awaited, and
\* the iteration stores a snapshot or is the first of this loop since another one ran
StorageTickEnabled ==
    /\ LoopBegins("storage")
    /\ storage.executing = <<>>
    /\ IF HasData(CurrentSnapshot(aggregator, now))
       THEN ~StorageTicksSpent
       ELSE processor.last_tick # "storage" \/ ~LoopContinues(processor)

\* ENABLED <<AlertTick>>_vars, written out
AlertTickEnabled == LoopBegins("alert_check") /\ ~AlertTicksSpent

\* WF_vars(StorageTick) and WF_vars(AlertTick) with ENABLED written out
StorageTickFairness == []<>(~StorageTickEnabled) \/ []<><<StorageTick>>_vars
AlertTickFairness   == []<>(~AlertTickEnabled) \/ []<><<AlertTick>>_vars

\* the event loop wakes every sleeping task and resumes every task whose await is over
LoopsFairness ==
    /\ WF_vars(ProcessingTick)
    /\ StorageTickFairness
    /\ WF_vars(StorageInsertFinishes)
    /\ AlertTickFairness
    /\ WF_vars(HealthTick)
SpecLoops == InitProcessor /\ [][NextLoops]_vars /\ LoopsFairness

\* the processor from start() to the return of stop()
NextProcessor ==
    \/ start
    \/ DeliverEvent
    \/ ProcessingTick
    \/ StorageTick
    \/ StorageInsertFinishes
    \/ AlertTick
    \/ HealthTick
    \/ LoopCancelled
    \/ StopBegins
    \/ StopCancelsTasks
    \/ StopForceBatchWrite
    \/ StopInsertFinishes
    \/ StopDisconnects
    \/ StopClosesStorage
    \/ StopReturns
SpecProcessor == InitProcessor /\ [][NextProcessor]_vars

NextCount == AddCountEvent
SpecCount == Init /\ [][NextCount]_vars

NextAlert ==
    \/ CheckMetricsCall
    \/ AcknowledgeCall
    \/ AddRuleCall
    \/ RemoveRuleCall
    \/ add_alert_callback
SpecAlert == Init /\ [][NextAlert]_vars

NextRules == CheckMetricsCall \/ ReplaceRuleCall \/ RemoveRuleCall
SpecRules == Init /\ [][NextRules]_vars

InitSubscribe ==
    /\ aggregator = MetricsAggregatorInit(DefaultConfig[1], DefaultConfig[2])
    /\ storage = StorageManagerInit(DefaultStorageConfig[1], DefaultStorageConfig[2], 0)
    /\ ingested = <<>>
    /\ alert_manager = AlertManagerInit
    /\ alerts = <<>>
    /\ notified = <<>>
    /\ now = 0
    /\ last_call = Call("__init__", TRUE)
    /\ consumer = EventConsumerInit
    /\ settled = [m \in 1..MaxMessages |-> <<>>]
    /\ inserted = <<>>
    /\ cache = << >>
    /\ processor = MetricsProcessorInit
    /\ connections = EventConsumerNew

NextSubscribe ==
    \/ ConnectCall
    \/ SetEventHandlerCall
    \/ StartConsumingCall
    \/ ConsumeReturns
    \/ TickStorage
SpecSubscribe == InitSubscribe /\ [][NextSubscribe]_vars

InitHistory ==
    /\ aggregator = MetricsAggregatorInit(DefaultConfig[1], DefaultConfig[2])
    /\ storage = StorageManagerInit(DefaultStorageConfig[1], DefaultStorageConfig[2], 0)
    /\ ingested = <<>>
    /\ alert_manager = LongHistory
    /\ alerts = [i \in 1..PastAlerts |-> PastAlert(i)]
    /\ notified = <<>>
    /\ now = 2 * PastAlerts
    /\ last_call = Call("__init__", TRUE)
    /\ consumer = EventConsumerInit
    /\ settled = [m \in 1..MaxMessages |-> <<>>]
    /\ inserted = <<>>
    /\ cache = << >>
    /\ processor = MetricsProcessorInit
    /\ connections = ConnectionsInit

NextHistory == CheckHistoryCall \/ AddRuleCall \/ RemoveRuleCall
SpecHistory == InitHistory /\ [][NextHistory]_vars

NextLatency == AddSignedEvent
SpecLatency == Init /\ [][NextLatency]_vars

\* the processor running, its storage loop woken after every sleep until the clock
\* reaches the horizon, every awaited insert ending (WF_vars(StorageIteration) with
\* ENABLED written out)
NextDrain == start \/ DeliverEvent \/ StorageIteration \/ StorageInsertFinishes
StorageIterationEnabled ==
    LoopBegins("storage") /\ storage.executing = <<>> /\ now < Horizon
DrainFairness ==
    /\ []<>(~StorageIterationEnabled) \/ []<><<StorageIteration>>_vars
    /\ WF_vars(StorageInsertFinishes)
SpecDrain == InitProcessor /\ [][NextDrain]_vars /\ DrainFairness

InitKeys ==
    /\ aggregator = MetricsAggregatorInit(DefaultConfig[1], DefaultConfig[2])
    /\ storage = StorageManagerInit(DefaultStorageConfig[1], DefaultStorageConfig[2], 0)
    /\ ingested = <<>>
    /\ alert_manager = ErrorRateAlertManager
    /\ alerts = <<>>
    /\ notified = <<>>
    /\ now = 0
    /\ last_call = Call("add_alert_rule", TRUE)
    /\ consumer = EventConsumerInit
    /\ settled = [m \in 1..MaxMessages |-> <<>>]
    /\ inserted = <<>>
    /\ cache = << >>
    /\ processor = MetricsProcessorInit
    /\ connections = ConnectionsInit

NextKeys == AddKeyedEvent \/ CheckKeyedCall \/ StoreKeyedCall
SpecKeys == InitKeys /\ [][NextKeys]_vars

NextConsumer == DeliverMessage \/ HandlerFinishes
SpecConsumer == Init /\ [][NextConsumer]_vars

NextStorage == StoreMetricsCall \/ InsertFinishes \/ TickStorage
SpecStorage == InitStorage /\ [][NextStorage]_vars

-----------------------------------------------------------------------------
(* Claims about the aggregator *)

LastIngested == ingested[Len(ingested)]

\* the sub-windows that still reach into the window_size_seconds before time t
RECURSIVE InsideWindow(_, _, _)
InsideWindow(ws, agg, t) ==
    IF ws = <<>> THEN <<>>
    ELSE (IF Head(ws).window_start + agg.sub_window_seconds > t - agg.window_size_seconds
          THEN <<Head(ws)>> ELSE <<>>) \o InsideWindow(Tail(ws), agg, t)

\* C1: after add_event ingested a response event with timestamp t, get_current_metrics
\* counts the events of those sub-windows only that satisfy
\* start + sub_window_seconds > t - window_size_seconds (older sub-windows are evicted).
C1_CountsOnlyInsideWindow ==
    (ingested # <<>> /\ LastIngested.event_type = API_RESPONSE) =>
        get_current_metrics(aggregator).overall.total_requests
            = SumOver(InsideWindow(AllWindows(aggregator), aggregator, LastIngested.timestamp),
                      "request_count")

\* every event arrives less than one sub-window duration behind the events before it
ReorderedWithinTolerance ==
    \A i, j \in 1..Len(ingested) :
        i < j => ingested[j].timestamp > ingested[i].timestamp - aggregator.sub_window_seconds

RECURSIVE MaxTimestamp(_)
MaxTimestamp(events) ==
    IF events = <<>> THEN 0 ELSE Max(Head(events).timestamp, MaxTimestamp(Tail(events)))

BucketOf(event) == WindowStartTime(aggregator, event.timestamp)

RECURSIVE RequestsOfBucket(_, _)
RequestsOfBucket(ws, bucket_start) ==
    IF ws = <<>> THEN 0
    ELSE (IF Head(ws).window_start = bucket_start THEN Head(ws).request_count ELSE 0)
         + RequestsOfBucket(Tail(ws), bucket_start)

\* C2: when response events arrive out of timestamp order by less than one sub-window
\* duration, every event whose bucket still lies inside the window is counted exactly
\* once: the live sub-windows of that bucket hold as many requests as were ingested for it.
C2_ReorderedEventsCounted ==
    ReorderedWithinTolerance =>
        \A i \in 1..Len(ingested) :
            LET bucket_start == BucketOf(ingested[i])
            IN  (bucket_start + aggregator.sub_window_seconds
                    > MaxTimestamp(ingested) - aggregator.window_size_seconds)
                => RequestsOfBucket(AllWindows(aggregator), bucket_start)
                    = Cardinality({j \in 1..Len(ingested) : BucketOf(ingested[j]) = bucket_start})

\* C3: for events built by from_request_response and ingested inside one window,
\* overall.total_requests is the number of events and overall.total_errors the number of
\* events with status_code >= 400.
C3_CountsRequestsAndErrors ==
    LET overall == get_current_metrics(aggregator).overall
    IN  /\ overall.total_requests = Len(ingested)
        /\ overall.total_errors
            = Cardinality({i \in 1..Len(ingested) : ingested[i].status_code >= 400})

-----------------------------------------------------------------------------
(* Claims about the alert manager *)

Identity(alert) == <<alert.rule_id, alert.service_name, alert.endpoint>>

Active(alert) == alert.status \in {TRIGGERED, ACKNOWLEDGED}

\* the Alert objects a step creates, and the ones it resolves
Created == (Len(alerts) + 1)..Len(alerts')

Resolved == {i \in 1..Len(alerts) : alerts[i].status # RESOLVED /\ alerts'[i].status = RESOLVED}

\* the metrics check_metrics hands to _evaluate_rule for a scope: <<metrics>>, or <<>> when
\* the snapshot does not hold the scope
ScopeMetricsOf(metrics_data, service_name, endpoint) ==
    IF Truthy(endpoint)
    THEN IF EndpointKey(service_name, endpoint) \in DOMAIN metrics_data.endpoints
         THEN <<metrics_data.endpoints[EndpointKey(service_name, endpoint)]>> ELSE <<>>
    ELSE IF Truthy(service_name)
         THEN IF service_name \in DOMAIN metrics_data.services
              THEN <<metrics_data.services[service_name]>> ELSE <<>>
         ELSE <<metrics_data.overall>>

\* the rule is one that check_metrics evaluates on the scope
AppliesTo(rule, service_name, endpoint) ==
    IF Truthy(endpoint) THEN EndpointApplies(rule, service_name, endpoint)
    ELSE IF Truthy(service_name) THEN ServiceApplies(rule, service_name)
    ELSE OverallApplies(rule)

ConditionOn(rule, metrics) ==
    /\ rule.metric_type \in DOMAIN metrics
    /\ EvaluateCondition(metrics[rule.metric_type], rule.operator, rule.threshold)

\* check_metrics(metrics_data) evaluates a registered rule on the scope of the alert and
\* finds its condition false
EvaluatedFalse(metrics_data, alert) ==
    \E r \in 1..Len(alert_manager.alert_rules) :
        LET rule    == alert_manager.alert_rules[r]
            metrics == ScopeMetricsOf(metrics_data, alert.service_name, alert.endpoint)
        IN  /\ rule.id = alert.rule_id
            /\ AppliesTo(rule, alert.service_name, alert.endpoint)
            /\ metrics # <<>>
            /\ rule.metric_type \in DOMAIN metrics[1]
            /\ ~ConditionOn(rule, metrics[1])

NotifiedCount(calls, callback, ref, status) ==
    Cardinality({k \in 1..Len(calls) :
                    calls[k] = [callback |-> callback, alert |-> ref, status |-> status]})

\* the step is a check_metrics call: no other operation counts rule_checks_performed
CheckStep ==
    alert_manager'.stats.rule_checks_performed = alert_manager.stats.rule_checks_performed + 1

C4_AtMostOneActive ==
    \A i, j \in 1..Len(alerts) :
        (i < j /\ Identity(alerts[i]) = Identity(alerts[j]))
            => ~(Active(alerts[i]) /\ Active(alerts[j]))

C4_NoSecondAlert ==
        CheckStep =>
            /\ \A i \in Created :
                /\ alerts'[i].id \notin DOMAIN alert_manager.active_alerts
                /\ \A j \in 1..Len(alerts) :
                        Identity(alerts[j]) = Identity(alerts'[i]) => alerts[j].status = RESOLVED
                /\ \A j \in Created : alerts'[j].id = alerts'[i].id => j = i
            /\ \A id \in DOMAIN alert_manager.active_alerts \cap DOMAIN alert_manager'.active_alerts :
                    alert_manager'.active_alerts[id] = alert_manager.active_alerts[id]
            /\ Len(alert_manager'.alert_history)
                    = Len(alert_manager.alert_history) + Cardinality(Created)
            /\ Len(notified')
                    = Len(notified)
                        + alert_manager.alert_callbacks * (Cardinality(Created) + Cardinality(Resolved))

C5_UnscopedRuleOverallOnly ==
    \A i \in 1..Len(alerts) :
        /\ alerts[i].id = alerts[i].rule_id
        /\ alerts[i].service_name = None
        /\ alerts[i].endpoint = None

\* C5: a rule with neither service_name nor endpoint is evaluated against overall and
\* against every service and every endpoint of the snapshot; after check_metrics each of
\* these scopes has an active alert of the rule exactly when the rule's condition holds on
\* the scope's metrics.
C5_UnscopedRuleEveryScope ==
    [][CheckStep => \A metrics_data \in AlertSnapshots :
        check_metrics(metrics_data) =>
            \A r \in 1..Len(alert_manager.alert_rules) :
                LET rule   == alert_manager.alert_rules[r]
                    active == DOMAIN alert_manager'.active_alerts
                IN  OverallApplies(rule) =>
                        /\ ConditionOn(rule, metrics_data.overall)
                            <=> GenerateAlertId(rule, None, None) \in active
                        /\ \A s \in DOMAIN metrics_data.services :
                            ConditionOn(rule, metrics_data.services[s])
                                <=> GenerateAlertId(rule, s, None) \in active
                        /\ \A k \in DOMAIN metrics_data.endpoints :
                            ConditionOn(rule, metrics_data.endpoints[k])
                                <=> GenerateAlertId(rule, SplitEndpointKey(k).service_name,
                                                    SplitEndpointKey(k).endpoint) \in active
      ]_vars

\* C5, its case: one check of a snapshot failing in every scope left three alerts of
\* high_error_rate, for overall, the service and the endpoint
C5_Witness ==
    /\ alert_manager.stats.rule_checks_performed = 1
    /\ DOMAIN alert_manager.active_alerts
        = {GenerateAlertId(HighErrorRate, None, None),
           GenerateAlertId(HighErrorRate, SvcA, None),
           GenerateAlertId(HighErrorRate, SvcA, Predict)}

\* the step is acknowledge_alert(alert_id) on an alert of the active map
AcknowledgeStep(alert_id) ==
    /\ alert_id \in DOMAIN alert_manager.active_alerts
    /\ acknowledge_alert(alert_id)

C6_Acknowledged ==
    \A alert_id \in AlertIdsIn :
        AcknowledgeStep(alert_id) =>
            LET ref == alert_manager.active_alerts[alert_id]
            IN  /\ alerts'[ref].status = ACKNOWLEDGED
                /\ alerts'[ref].acknowledged_at = now
                /\ alert_manager'.active_alerts = alert_manager.active_alerts
                /\ last_call'.result = TRUE

\* C6 as the specification states it: after acknowledge_alert the alert is acknowledged and
\* still in the active map, and a later check_metrics in which the rule's condition does
\* not hold neither changes its status nor removes it from the active map.
C6_AcknowledgedNotAutoResolved ==
    [][/\ C6_Acknowledged
       /\ CheckStep => \A metrics_data \in AlertSnapshots :
            check_metrics(metrics_data) =>
                \A id \in DOMAIN alert_manager.active_alerts :
                    LET ref == alert_manager.active_alerts[id]
                    IN  (alerts[ref].status = ACKNOWLEDGED /\ EvaluatedFalse(metrics_data, alerts[ref]))
                        => /\ alerts'[ref].status = ACKNOWLEDGED
                           /\ id \in DOMAIN alert_manager'.active_alerts
      ]_vars

\* C6: after acknowledge_alert(id) on an alert of the active map the alert has status
\* acknowledged, acknowledged_at set, and is still in the active map; a later check_metrics
\* keeps it so while it does not find the rule's condition false on the alert's scope, and
\* resolves it and removes it from the active map when it does.
C6_AcknowledgedResolvedByCheck ==
    [][/\ C6_Acknowledged
       /\ CheckStep => \A metrics_data \in AlertSnapshots :
            check_metrics(metrics_data) =>
                \A id \in DOMAIN alert_manager.active_alerts :
                    LET ref == alert_manager.active_alerts[id]
                    IN  alerts[ref].status = ACKNOWLEDGED =>
                            IF EvaluatedFalse(metrics_data, alerts[ref])
                            THEN /\ alerts'[ref].status = RESOLVED
                                 /\ alerts'[ref].resolved_at = now'
                                 /\ id \notin DOMAIN alert_manager'.active_alerts
                            ELSE /\ alerts'[ref] = alerts[ref]
                                 /\ id \in DOMAIN alert_manager'.active_alerts
                                 /\ alert_manager'.active_alerts[id] = ref
      ]_vars

\* C6, its case: an alert that was acknowledged and that a later check resolved
C6_Witness ==
    \E i \in 1..Len(alerts) :
        /\ alerts[i].acknowledged_at # NoTime
        /\ alerts[i].status = RESOLVED
        /\ alerts[i].resolved_at > alerts[i].acknowledged_at
        /\ alerts[i].id \notin DOMAIN alert_manager.active_alerts

\* C7: when check_metrics evaluates a rule on a scope where its condition does not hold
\* and an active alert of that identity exists, the alert gets status resolved and
\* resolved_at the time of the check, leaves the active map, and every registered callback
\* is invoked once with it; resolving adds no entry to alert_history, which grows by the
\* alerts the same call creates only.
C7_ResolveOnConditionFalse ==
    [][CheckStep => \A metrics_data \in AlertSnapshots :
        check_metrics(metrics_data) =>
            /\ \A id \in DOMAIN alert_manager.active_alerts :
                LET ref == alert_manager.active_alerts[id]
                IN  EvaluatedFalse(metrics_data, alerts[ref]) =>
                        /\ alerts'[ref].status = RESOLVED
                        /\ alerts'[ref].resolved_at = now'
                        /\ id \notin DOMAIN alert_manager'.active_alerts
                        /\ \A other \in DOMAIN alert_manager'.active_alerts :
                                alert_manager'.active_alerts[other] # ref
                        /\ \A callback \in 1..alert_manager.alert_callbacks :
                                NotifiedCount(notified', callback, ref, RESOLVED)
                                    = NotifiedCount(notified, callback, ref, RESOLVED) + 1
                        /\ Cardinality({k \in 1..Len(alert_manager'.alert_history) :
                                            alert_manager'.alert_history[k] = ref})
                            = Cardinality({k \in 1..Len(alert_manager.alert_history) :
                                            alert_manager.alert_history[k] = ref})
            /\ alert_manager'.stats.total_alerts_resolved
                    = alert_manager.stats.total_alerts_resolved + Cardinality(Resolved)
            /\ Len(alert_manager'.alert_history)
                    = Len(alert_manager.alert_history) + Cardinality(Created)
            /\ SubSeq(alert_manager'.alert_history, 1, Len(alert_manager.alert_history))
                    = alert_manager.alert_history
      ]_vars

\* C7, its case: a check resolved the only alert, with one callback registered: the
\* callback was invoked once for the trigger and once for the resolution, and the history
\* still has the one entry
C7_Witness ==
    /\ alert_manager.alert_callbacks = 1
    /\ Len(alerts) = 1
    /\ alerts[1].status = RESOLVED
    /\ alerts[1].resolved_at = now
    /\ alert_manager.active_alerts = << >>
    /\ alert_manager.alert_history = <<1>>
    /\ notified = <<[callback |-> 1, alert |-> 1, status |-> TRIGGERED],
                    [callback |-> 1, alert |-> 1, status |-> RESOLVED]>>

StatusOrder ==
    {<<TRIGGERED, TRIGGERED>>, <<TRIGGERED, ACKNOWLEDGED>>, <<TRIGGERED, RESOLVED>>,
     <<ACKNOWLEDGED, ACKNOWLEDGED>>, <<ACKNOWLEDGED, RESOLVED>>, <<RESOLVED, RESOLVED>>}

C8_ResolvedNotActive ==
    \A id \in DOMAIN alert_manager.active_alerts :
        /\ alert_manager.active_alerts[id] \in 1..Len(alerts)
        /\ alerts[alert_manager.active_alerts[id]].status # RESOLVED
        /\ alerts[alert_manager.active_alerts[id]].id = id

C8_StatusStep ==
    /\ Len(alerts') >= Len(alerts)
    /\ \A i \in 1..Len(alerts) :
        /\ <<alerts[i].status, alerts'[i].status>> \in StatusOrder
        /\ alerts[i].status = RESOLVED => alerts'[i] = alerts[i]
    /\ \A i \in Created :
        /\ alerts'[i].status = TRIGGERED
        /\ alert_manager'.active_alerts[alerts'[i].id] = i
    /\ \A alert_id \in AlertIdsIn :
        (acknowledge_alert(alert_id) /\ alert_id \notin DOMAIN alert_manager.active_alerts)
            => /\ last_call'.result = FALSE
               /\ alerts' = alerts
               /\ alert_manager' = alert_manager

\* C8: every alert's status follows the order none -> triggered -> (acknowledged ->)
\* resolved: a resolved alert is never in the active map and never changes again,
\* acknowledge_alert on a resolved or unknown id returns False and changes no alert, and
\* every alert a call creates, also for an identity resolved before, is a new Alert with
\* status triggered, which the active map then holds.
C8_StatusOrder == [][C8_ResolvedNotActive' /\ C8_StatusStep]_vars

\* C8, its case: an identity triggered again after its alert was resolved, the resolved
\* alert acknowledged in vain
C8_Witness ==
    /\ last_call = Call("acknowledge_alert", FALSE)
    /\ \E i, j \in 1..Len(alerts) :
        /\ i < j
        /\ alerts[i].id = alerts[j].id
        /\ alerts[i].status = RESOLVED
        /\ alerts[j].status = TRIGGERED
        /\ alert_manager.active_alerts[alerts[j].id] = j

-----------------------------------------------------------------------------
(* Claims about the consumer *)

Processed == {m \in 1..consumer.delivered : m \notin consumer.in_flight}

OutcomeCount(outcome) ==
    Cardinality({m \in Processed : settled[m] # <<>> /\ settled[m][1].outcome = outcome})

-----------------------------------------------------------------------------
(* Claims about the storage manager *)

Uids(rows) == {rows[k].uid : k \in 1..Len(rows)}

\* the rows the storage manager still holds: buffered, or handed to the running insert
HeldUids ==
    Uids(storage.pending_metrics)
        \cup (IF storage.executing = <<>> THEN {} ELSE Uids(storage.executing[1]))

\* the step is the failure of the insert of a flush
InsertFailsStep ==
    /\ Len(inserted') = Len(inserted) + 1
    /\ ~inserted'[Len(inserted')].ok

\* the step is a store_metrics call
StoreStep == storage'.rows_created > storage.rows_created

\* the rows a store_metrics call builds end the sequence
EndsWithNewRows(rows) ==
    LET n == storage'.rows_created - storage.rows_created
    IN  /\ Len(rows) = Len(storage.pending_metrics) + n
        /\ SubSeq(rows, 1, Len(storage.pending_metrics)) = storage.pending_metrics
        /\ \A k \in 1..n : rows[Len(storage.pending_metrics) + k].uid = storage.rows_created + k

C10_FailedRowsGone ==
    /\ \A i \in 1..Len(inserted) :
        ~inserted[i].ok =>
            /\ Uids(inserted[i].rows) \cap HeldUids = {}
            /\ \A j \in 1..Len(inserted) : j # i =>
                    Uids(inserted[i].rows) \cap Uids(inserted[j].rows) = {}
    /\ storage.stats.failed_writes >= Cardinality({i \in 1..Len(inserted) : ~inserted[i].ok})

C10_FlushFailureStep ==
    /\ InsertFailsStep =>
        /\ inserted'[Len(inserted')].rows = storage.pending_metrics
        /\ storage'.stats.failed_writes = storage.stats.failed_writes + 1
        /\ storage'.stats.batch_writes = storage.stats.batch_writes
        /\ storage'.stats.total_postgres_writes = storage.stats.total_postgres_writes
        /\ storage'.pending_metrics = <<>>
        /\ storage'.executing = <<>>
        /\ storage'.last_batch_time = now
    /\ StoreStep =>
        \/ /\ storage'.stats.failed_writes = storage.stats.failed_writes
           /\ EndsWithNewRows(storage'.pending_metrics)
           /\ storage'.executing \in {<<>>, <<storage'.pending_metrics>>}
           /\ storage'.executing # <<>>
                <=> (\/ Len(storage'.pending_metrics) >= storage.batch_size
                     \/ now - storage.last_batch_time >= storage.batch_timeout_seconds)
        \/ /\ storage'.stats.failed_writes = storage.stats.failed_writes + 1
           /\ storage'.pending_metrics = <<>>
           /\ storage'.executing = <<>>
           /\ storage'.last_batch_time = now

\* C10: when the multi-row insert of a flush fails, failed_writes increases by exactly one,
\* the pending buffer is emptied and last_batch_time is reset to the time of the failure;
\* the rows of a failed insert are never buffered or passed to an insert again; and every
\* later store_metrics call still appends its rows to the buffer and starts a flush of the
\* buffer when the batch size or the batch timeout is reached.
C10_FlushFailureDropsRows == [][C10_FailedRowsGone' /\ C10_FlushFailureStep]_vars

\* C10, its case: an insert failed, and a later store_metrics call buffered new rows that
\* a later insert wrote
C10_Witness ==
    \E i, j \in 1..Len(inserted) :
        /\ i < j
        /\ ~inserted[i].ok
        /\ inserted[j].ok
        /\ storage.stats.failed_writes = 1
        /\ storage.stats.total_postgres_writes = Len(inserted[j].rows)
        /\ storage.pending_metrics = <<>>

-----------------------------------------------------------------------------
(* Claims about the aggregator as time passes *)

\* the response events among the ingested ones
RECURSIVE ResponseEvents(_)
ResponseEvents(events) ==
    IF events = <<>> THEN <<>>
    ELSE (IF Head(events).event_type = API_RESPONSE THEN <<Head(events)>> ELSE <<>>)
         \o ResponseEvents(Tail(events))

\* C13: a sub-window is evicted once it falls outside the total window as time advances:
\* when no event arrived for at least window_size_seconds after the last ingested event,
\* get_current_metrics reports overall.total_requests = 0 and qps = 0.
C13_IdleWindowIsEmpty ==
    (/\ ResponseEvents(ingested) # <<>>
     /\ now - MaxTimestamp(ingested) >= aggregator.window_size_seconds)
        => /\ get_current_metrics(aggregator).overall.total_requests = 0
           /\ get_current_metrics(aggregator).overall.qps = 0

\* C14: the number of live sub-windows that get_current_metrics aggregates, the sealed
\* windows plus the current one, reported as active_windows, is at most
\* window_size_seconds / sub_window_seconds.
C14_LiveWindowsBounded ==
    /\ Len(AllWindows(aggregator)) <= aggregator.window_size_seconds \div aggregator.sub_window_seconds
    /\ get_current_metrics(aggregator).active_windows
        <= aggregator.window_size_seconds \div aggregator.sub_window_seconds

\* C15: for any order of event timestamps, the live sub-windows taken in sequence (the
\* sealed deque in order, then the current window) have strictly increasing window_start.
C15_WindowStartsIncrease ==
    \A i, j \in 1..Len(AllWindows(aggregator)) :
        i < j => AllWindows(aggregator)[i].window_start < AllWindows(aggregator)[j].window_start

\* the step is add_event of a response event whose bucket starts before the oldest live
\* sub-window
AddsTooOldEvent ==
    /\ Len(ingested') = Len(ingested) + 1
    /\ ingested'[Len(ingested')].event_type = API_RESPONSE
    /\ AllWindows(aggregator) # <<>>
    /\ \A i \in 1..Len(AllWindows(aggregator)) :
            BucketOf(ingested'[Len(ingested')]) < AllWindows(aggregator)[i].window_start

\* C16: add_event of a response event whose aligned bucket start is earlier than the start
\* of the oldest live sub-window drops the event: no sub-window is created or sealed, and
\* the totals of get_current_metrics are unchanged.
C16_TooOldEventDropped ==
    [][AddsTooOldEvent =>
        /\ AllWindows(aggregator') = AllWindows(aggregator)
        /\ get_current_metrics(aggregator').overall = get_current_metrics(aggregator).overall
      ]_vars

\* C17: add_event of an event whose event_type is not api_response leaves the aggregator
\* unchanged: no sub-window is created, sealed or modified, total_events_processed keeps
\* its value, and get_current_metrics returns what it returned before.
C17_OtherEventTypesIgnored ==
    [][(/\ Len(ingested') = Len(ingested) + 1
        /\ ingested'[Len(ingested')].event_type # API_RESPONSE)
            => /\ aggregator' = aggregator
               /\ get_current_metrics(aggregator') = get_current_metrics(aggregator)
      ]_vars

\* C17, its case: an aggregator that holds a response event was handed an api_request,
\* an api_error or a system_health event in another sub-window, and still has the one
\* window with the one request
C17_Witness ==
    /\ Len(ingested) = 2
    /\ ingested[1].event_type = API_RESPONSE
    /\ ingested[2].event_type # API_RESPONSE
    /\ BucketOf(ingested[2]) # BucketOf(ingested[1])
    /\ aggregator.windows = <<>>
    /\ aggregator.current_window # <<>>
    /\ aggregator.current_window[1].window_start = BucketOf(ingested[1])
    /\ get_current_metrics(aggregator).overall.total_requests = 1

-----------------------------------------------------------------------------
(* Claims about the running processor *)

\* C18: with no event ever ingested and the default rule set, the alert ticks
\* (check_metrics on the zeroed snapshot) never create an alert: the active map and
\* alert_history stay empty and no notification hook is invoked.
C18_NoAlertWithoutEvents ==
    ingested = <<>> =>
        /\ alert_manager.active_alerts = << >>
        /\ alert_manager.alert_history = <<>>
        /\ alerts = <<>>
        /\ notified = <<>>

\* C19: a storage tick calls store_metrics if and only if the snapshot it took has
\* overall.total_requests > 0; and as long as no event has been ingested, no row is
\* appended to the pending buffer and no insert is issued.
C19_StoresOnlySnapshotsWithRequests ==
    [][/\ StorageTick =>
            (StoreStep <=> get_current_metrics(aggregator).overall.total_requests > 0)
       /\ StoreStep => StorageTick
       /\ ingested' = <<>> =>
            /\ storage'.rows_created = 0
            /\ storage'.pending_metrics = <<>>
            /\ storage'.executing = <<>>
            /\ inserted' = <<>>
      ]_vars

\* C19, its case: the storage loop took a snapshot that counts a request and handed it to
\* store_metrics, which appended its rows
C19_Witness ==
    /\ processor.last_tick = "storage"
    /\ get_current_metrics(aggregator).overall.total_requests = 1
    /\ processor.stats.total_storage_operations = 1
    /\ storage.rows_created = 3
    /\ Len(storage.pending_metrics) = 3

\* the exception handler of a loop ran in this step
LoopRaisedStep ==
    \/ processor'.stats.errors_count > processor.stats.errors_count
    \/ processor'.raised # processor.raised

\* a loop that still has iterations to run in the model
TicksSpent(l) ==
    \/ l = "storage" /\ StorageTicksSpent
    \/ l = "alert_check" /\ AlertTicksSpent

\* C12: an exception raised inside one iteration of the storage, alert-check or
\* health-check loop is caught: it ends neither that loop nor another one, and it does
\* not stop the ingestion of events (the subscription and the aggregator are as they
\* were); and while the processor is running and not stopping, every loop keeps ticking.
C12_LoopsSurviveExceptions ==
    /\ [](LoopContinues(processor) => \A l \in Loops : processor.tasks[l] = "running")
    /\ [][LoopRaisedStep =>
            /\ processor'.tasks = processor.tasks
            /\ connections' = connections
            /\ aggregator' = aggregator]_vars
    /\ \A l \in Loops :
            []<>(~LoopContinues(processor) \/ TicksSpent(l) \/ processor.last_tick = l)

\* C12, its case: an iteration of the storage loop raised, the loop ran its next
\* iteration and stored a snapshot of an event, and every loop is still running
C12_Witness ==
    /\ processor.raised = "storage"
    /\ processor.stats.errors_count = 1
    /\ processor.last_tick = "storage"
    /\ processor.stats.total_storage_operations = 1
    /\ Len(ingested) = 1
    /\ \A l \in Loops : processor.tasks[l] = "running"

-----------------------------------------------------------------------------
(* Claims about stopping *)

\* C20: after stop_consuming completes on a consumer that is consuming, delivery is
\* cancelled: _is_consuming is false and the event handler is invoked for no message the
\* broker holds afterwards.
C20_DeliveryCancelled ==
    connections.stopped =>
        /\ ~connections.is_consuming
        /\ connections.consumers = {}
        /\ connections.handled_after = 0

\* stop() reached its call of force_batch_write
StopReachedFlush == processor.pc \in {"force_batch_write", "disconnect", "close", "returned"}

\* consumption is stopped before the flush of stop()
ConsumptionStoppedBeforeFlush == StopReachedFlush => connections.consumers = {}

\* the four loops are terminated before the flush of stop()
LoopsDoneBeforeFlush == StopReachedFlush => \A l \in Loops : processor.tasks[l] = "done"

\* when the pool or the Redis client is closed, no row is pending and every row ever
\* created was handed to an insert or dropped by a batch write that got no connection
RowsAttemptedBeforeClose ==
    (connections.postgres_pool = "closed" \/ connections.redis_client = "closed") =>
        /\ storage.pending_metrics = <<>>
        /\ storage.executing = <<>>
        /\ \A uid \in 1..storage.rows_created :
                \/ \E i \in 1..Len(inserted) : uid \in RowIds(inserted[i].rows)
                \/ uid \in processor.refused

\* stop() returns with the flags reset and nothing pending
StopReturnsClean ==
    processor.pc = "returned" =>
        /\ ~processor.is_running
        /\ ~processor.is_stopping
        /\ storage.pending_metrics = <<>>

\* C11: stop() on a running processor stops event consumption and terminates all four
\* background loops before the final force_batch_write, attempts to insert every row
\* still pending before the PostgreSQL pool and the Redis client are closed, and returns
\* with _is_running false, _is_stopping false and an empty pending buffer.
C11_StopOrder ==
    /\ ConsumptionStoppedBeforeFlush
    /\ LoopsDoneBeforeFlush
    /\ RowsAttemptedBeforeClose
    /\ StopReturnsClean

-----------------------------------------------------------------------------
(* Claims about the cache and the batch *)

\* the flush test of the store_metrics call of this step, on the buffer with its new rows
FlushDueInStep ==
    \/ Len(storage.pending_metrics) + (storage'.rows_created - storage.rows_created)
            >= storage.batch_size
    \/ now - storage.last_batch_time >= storage.batch_timeout_seconds

\* what a store_metrics call does to the buffer, whatever the cache write did
C21_BatchInStep(metrics_data, acquire_ok) ==
    /\ storage'.rows_created = storage.rows_created + Len(BatchRows(metrics_data, 1))
    /\ IF ~FlushDueInStep
       THEN /\ EndsWithNewRows(storage'.pending_metrics)
            /\ storage'.executing = <<>>
            /\ storage'.stats.failed_writes = storage.stats.failed_writes
       ELSE IF acquire_ok
       THEN /\ EndsWithNewRows(storage'.pending_metrics)
            /\ storage'.executing = <<storage'.pending_metrics>>
            /\ storage'.stats.failed_writes = storage.stats.failed_writes
       ELSE /\ storage'.pending_metrics = <<>>
            /\ storage'.executing = <<>>
            /\ storage'.stats.failed_writes = storage.stats.failed_writes + 1

\* what a store_metrics call does to the cache, whatever the batch does
C21_CacheInStep(metrics_data, redis_ok) ==
    IF redis_ok
    THEN /\ \A k \in CacheKeys(metrics_data) :
                k \in DOMAIN cache' /\ cache'[k] = metrics_data.timestamp
         /\ \A k \in (DOMAIN cache) \ CacheKeys(metrics_data) :
                k \in DOMAIN cache' /\ cache'[k] = cache[k]
         /\ storage'.stats.total_redis_writes = storage.stats.total_redis_writes + 1
    ELSE /\ cache' = cache
         /\ storage'.stats.total_redis_writes = storage.stats.total_redis_writes

\* C21: in store_metrics a failing cache write does not prevent the rows of the snapshot
\* from being appended to the pending buffer and flushed when a flush is due, and a
\* failing insert (at the acquisition of the connection or at the insert itself) does not
\* prevent the cache keys from being written by the same call nor by later calls: every
\* store_metrics call writes the cache when Redis answers, whatever the batch does.
C21_CacheAndBatchIndependent ==
    [][/\ \A metrics_data \in StorageSnapshots, redis_ok \in BOOLEAN, acquire_ok \in BOOLEAN :
            store_metrics(metrics_data, redis_ok, acquire_ok) =>
                /\ C21_BatchInStep(metrics_data, acquire_ok)
                /\ C21_CacheInStep(metrics_data, redis_ok)
       /\ InsertFailsStep => cache' = cache
       /\ StoreStep \/ cache' = cache]_vars

\* C21, its case: a cache write failed and an insert failed, later calls wrote the cache
\* and their rows were written by a later insert
C21_Witness ==
    \E i, j \in 1..Len(inserted) :
        /\ i < j
        /\ ~inserted[i].ok
        /\ inserted[j].ok
        /\ storage.rows_created \in Uids(inserted[j].rows)
        /\ storage.stats.total_redis_writes >= 1
        /\ storage.stats.total_redis_writes * 3 < storage.rows_created
        /\ \A metrics_data \in StorageSnapshots : CacheKeys(metrics_data) \subseteq DOMAIN cache

-----------------------------------------------------------------------------
(* Claims about the timestamps of an alert *)

TimestampsOrdered(alert) ==
    /\ alert.triggered_at # NoTime
    /\ alert.acknowledged_at # NoTime => alert.triggered_at <= alert.acknowledged_at
    /\ alert.resolved_at # NoTime =>
        /\ alert.triggered_at <= alert.resolved_at
        /\ alert.acknowledged_at # NoTime => alert.acknowledged_at <= alert.resolved_at

\* C22: for every alert at every time, under a clock that never goes back: triggered_at <=
\* acknowledged_at whenever acknowledged_at is set, and acknowledged_at <= resolved_at and
\* triggered_at <= resolved_at whenever resolved_at is set; also when acknowledge_alert is
\* called several times on the same alert, and no call moves a timestamp of a resolved alert.
C22_TimestampsOrdered ==
    [][/\ \A i \in 1..Len(alerts') : TimestampsOrdered(alerts'[i])
       /\ now' >= now
       /\ \A i \in 1..Len(alerts) :
            /\ alerts'[i].triggered_at = alerts[i].triggered_at
            /\ alerts[i].status = RESOLVED => alerts'[i] = alerts[i]
            /\ alerts'[i].acknowledged_at # alerts[i].acknowledged_at =>
                    /\ alerts'[i].acknowledged_at = now
                    /\ alerts'[i].status = ACKNOWLEDGED]_vars

\* C22, its case: an alert acknowledged after the time it was triggered at (a check ran in
\* between), and resolved by a later check
C22_Witness ==
    \E i \in 1..Len(alerts) :
        /\ alerts[i].triggered_at < alerts[i].acknowledged_at
        /\ alerts[i].acknowledged_at < alerts[i].resolved_at
        /\ alerts[i].status = RESOLVED

-----------------------------------------------------------------------------
(* Claims about snapshots *)

\* the result of the last read
LastRead == last_call.result.metrics

HasRead == last_call.op = "get_current_metrics"

ScopesOf(metrics_data) ==
    {metrics_data.overall}
        \cup {metrics_data.services[k] : k \in DOMAIN metrics_data.services}
        \cup {metrics_data.endpoints[k] : k \in DOMAIN metrics_data.endpoints}

ErrorRateInRange(scope) ==
    /\ 0 <= scope.total_errors
    /\ scope.total_errors <= scope.total_requests
    /\ 0 <= scope.error_rate
    /\ scope.error_rate <= 100 * 100
    /\ scope.total_requests = 0 => scope.error_rate = 0
    /\ scope.total_errors = scope.total_requests /\ scope.total_requests > 0
            => scope.error_rate = 100 * 100

\* C24: in every snapshot and in every scope (overall, each service, each endpoint)
\* total_errors <= total_requests, hence 0 <= error_rate <= 100 (10000 hundredths), and
\* error_rate is 0 when total_requests = 0.
C24_ErrorRateInRange ==
    /\ \A scope \in ScopesOf(get_current_metrics(aggregator)) : ErrorRateInRange(scope)
    /\ HasRead => \A scope \in ScopesOf(LastRead) : ErrorRateInRange(scope)

\* C24, its case: a snapshot was read in which one service has failing requests only, the
\* other none, and a third of all requests failed
C24_Witness ==
    /\ HasRead
    /\ LastRead.overall.total_requests = 3
    /\ LastRead.overall.error_rate = 3333
    /\ \E s \in DOMAIN LastRead.services : LastRead.services[s].error_rate = 100 * 100
    /\ \E s \in DOMAIN LastRead.services : LastRead.services[s].error_rate = 0

-----------------------------------------------------------------------------
(* Claims about the latency figures of a snapshot *)

\* the sample of the snapshot: the latencies of the live sub-windows
SampleSize == Len(ConcatTimes(AllWindows(aggregator)))

AvgBelowP95(scope) == scope.avg_response_time <= scope.p95_response_time

P95BelowP99(scope) == scope.p95_response_time <= scope.p99_response_time

\* C25, as stated: for every latency sample with at least two entries, all non-negative,
\* the snapshot satisfies avg_response_time <= p95_response_time <= p99_response_time.
C25_AvgP95P99Ordered ==
    SampleSize >= 2 =>
        \A scope \in ScopesOf(get_current_metrics(aggregator)) :
            AvgBelowP95(scope) /\ P95BelowP99(scope)

\* C25, amended: p95_response_time <= p99_response_time for every sample, and
\* avg_response_time <= p95_response_time for every sample of 2 up to 20 non-negative
\* entries (from 21 entries on, the 95th percentile can lie below the mean).
C25_OrderedUpToTwenty ==
    \A scope \in ScopesOf(get_current_metrics(aggregator)) :
        /\ P95BelowP99(scope)
        /\ (SampleSize >= 2 /\ SampleSize <= 20) => AvgBelowP95(scope)

\* C25, its case: a sample of 20 entries, 19 fast and one slow, where the mean meets the
\* 95th percentile (5.95 ms) below the 99th
C25_Witness ==
    /\ SampleSize = 20
    /\ get_current_metrics(aggregator).overall.avg_response_time = 595
    /\ get_current_metrics(aggregator).overall.p95_response_time = 595
    /\ get_current_metrics(aggregator).overall.p99_response_time > 595

-----------------------------------------------------------------------------
(* Claims about the totals of a snapshot *)

RECURSIVE SumOfScopes(_, _)
SumOfScopes(scopes, field) ==
    IF DOMAIN scopes = {} THEN 0
    ELSE LET k == CHOOSE x \in DOMAIN scopes : TRUE
         IN  scopes[k][field] + SumOfScopes([x \in (DOMAIN scopes) \ {k} |-> scopes[x]], field)

\* the response events among the first n events handed to add_event
Accepted(n) == {i \in 1..n : ingested[i].event_type = API_RESPONSE}

Failed(S) == {i \in S : IsErrorStatus(ingested[i])}

Named(S) == {i \in S : Truthy(ingested[i].service_name)}

\* no sub-window has left the deque yet
NothingEvicted == Len(AllWindows(aggregator)) <= aggregator.num_sub_windows

\* the totals of a snapshot taken after n add_event calls
TotalsOf(metrics_data, n) ==
    /\ NothingEvicted =>
        /\ metrics_data.overall.total_requests = Cardinality(Accepted(n))
        /\ metrics_data.overall.total_errors = Cardinality(Failed(Accepted(n)))
        /\ SumOfScopes(metrics_data.services, "total_requests") = Cardinality(Named(Accepted(n)))
        /\ SumOfScopes(metrics_data.services, "total_errors")
                = Cardinality(Failed(Named(Accepted(n))))
    /\ Named(Accepted(n)) = Accepted(n) =>
        /\ SumOfScopes(metrics_data.services, "total_requests")
                = metrics_data.overall.total_requests
        /\ SumOfScopes(metrics_data.services, "total_errors") = metrics_data.overall.total_errors

\* C26: for any sequence of accepted events, overall.total_requests and total_errors of a
\* snapshot equal the sums of request_count and error_count over the live sub-windows (with
\* no sub-window evicted: the numbers of events and of failing events accepted), and the
\* per-service total_requests and total_errors of the same snapshot sum to the overall
\* values when every event has a non-empty service_name.
C26_TotalsAddUp ==
    /\ get_current_metrics(aggregator).overall.total_requests
            = SumOver(AllWindows(aggregator), "request_count")
    /\ get_current_metrics(aggregator).overall.total_errors
            = SumOver(AllWindows(aggregator), "error_count")
    /\ TotalsOf(get_current_metrics(aggregator), Len(ingested))
    /\ HasRead => TotalsOf(LastRead, last_call.result.events)

\* C26, its case: a snapshot read after three named events of both services in two
\* sub-windows, one of them failing
C26_Witness ==
    /\ HasRead
    /\ last_call.result.events = 3
    /\ Named(Accepted(3)) = Accepted(3)
    /\ LastRead.active_windows = 2
    /\ Cardinality(DOMAIN LastRead.services) = 2
    /\ LastRead.overall.total_requests = 3
    /\ LastRead.overall.total_errors = 1

-----------------------------------------------------------------------------
(* Claims about scoped rules *)

RuleOf(alert) ==
    CHOOSE rule \in {alert_manager.alert_rules[r] : r \in 1..Len(alert_manager.alert_rules)} :
        rule.id = alert.rule_id

\* C27, as stated: a rule with service_name set and endpoint unset creates alerts only with
\* identity (rule.id, service_name, null), never for overall and never for an endpoint of
\* that service; a rule with both set creates alerts only for that single endpoint.
C27_ScopedRuleOwnScopeOnly ==
    \A i \in 1..Len(alerts) :
        LET rule == RuleOf(alerts[i])
        IN  /\ alerts[i].service_name = rule.service_name
            /\ alerts[i].endpoint = rule.endpoint

\* the alerts a rule of a service may have after a check of metrics_data
ServiceRuleAlerts(rule, metrics_data, active) ==
    /\ GenerateAlertId(rule, None, None) \notin active
    /\ \A s \in DOMAIN metrics_data.services :
        GenerateAlertId(rule, s, None) \in active
            <=> (s = rule.service_name /\ ConditionOn(rule, metrics_data.services[s]))
    /\ \A k \in DOMAIN metrics_data.endpoints :
        GenerateAlertId(rule, SplitEndpointKey(k).service_name, SplitEndpointKey(k).endpoint)
                \in active
            <=> (/\ SplitEndpointKey(k).service_name = rule.service_name
                 /\ ConditionOn(rule, metrics_data.endpoints[k]))

\* the alerts a rule of one endpoint may have after a check of metrics_data
EndpointRuleAlerts(rule, metrics_data, active) ==
    /\ GenerateAlertId(rule, None, None) \notin active
    /\ \A s \in DOMAIN metrics_data.services : GenerateAlertId(rule, s, None) \notin active
    /\ \A k \in DOMAIN metrics_data.endpoints :
        GenerateAlertId(rule, SplitEndpointKey(k).service_name, SplitEndpointKey(k).endpoint)
                \in active
            <=> (/\ SplitEndpointKey(k).service_name = rule.service_name
                 /\ SplitEndpointKey(k).endpoint = rule.endpoint
                 /\ ConditionOn(rule, metrics_data.endpoints[k]))

\* C27, amended: a rule with service_name set and endpoint unset is evaluated against the
\* service snapshot of every matching service and against every endpoint snapshot of that
\* service, never against overall nor against another service or its endpoints; a rule with
\* both service_name and endpoint set is evaluated against that single endpoint only. After
\* check_metrics each of these scopes has an active alert of the rule exactly when the
\* condition holds on the scope's metrics, and every alert carries the service of its rule.
C27_ScopedRuleServiceAndEndpoints ==
    [][CheckStep =>
        /\ \A i \in 1..Len(alerts') :
            /\ alerts'[i].service_name = RuleOf(alerts'[i]).service_name
            /\ alerts'[i].endpoint # None
                    => RuleOf(alerts'[i]).endpoint \in {None, alerts'[i].endpoint}
            /\ alerts'[i].endpoint = None => RuleOf(alerts'[i]).endpoint = None
        /\ \A metrics_data \in ScopedSnapshots :
            check_metrics(metrics_data) =>
                /\ ServiceRuleAlerts(ServiceRule, metrics_data, DOMAIN alert_manager'.active_alerts)
                /\ EndpointRuleAlerts(EndpointRule, metrics_data, DOMAIN alert_manager'.active_alerts)
      ]_vars

\* C27, its case: after one check of a snapshot failing everywhere except in the second
\* endpoint of the first service, the rule of the service has an alert for the service and
\* one for its failing endpoint, and the rule of the endpoint one for that endpoint
C27_Witness ==
    /\ alert_manager.stats.rule_checks_performed = 1
    /\ DOMAIN alert_manager.active_alerts
        = {GenerateAlertId(ServiceRule, SvcA, None),
           GenerateAlertId(ServiceRule, SvcA, Predict),
           GenerateAlertId(EndpointRule, SvcA, Predict)}
    /\ \E i \in 1..Len(alerts) :
        /\ alerts[i].rule_id = ServiceRule.id
        /\ alerts[i].service_name = SvcA
        /\ alerts[i].endpoint = Predict

-----------------------------------------------------------------------------
(* Claims about the buffer under interleaved calls *)

RECURSIVE UidsOfBatches(_)
UidsOfBatches(batches) ==
    IF batches = <<>> THEN {} ELSE Uids(Head(batches)) \cup UidsOfBatches(Tail(batches))

\* the rows that were handed to an insert, finished or still awaited
AttemptedUids ==
    UidsOfBatches(storage.executing) \cup UNION {Uids(inserted[i].rows) : i \in 1..Len(inserted)}

\* the step is the end of an insert
InsertEndsStep == Len(inserted') = Len(inserted) + 1

\* C28: when store_metrics and force_batch_write, or two store_metrics calls, interleave at
\* the await points of _execute_batch_write, no row appended while an insert is in progress
\* is cleared from the buffer without having been part of an insert attempt: every row that
\* leaves the buffer at the end of an insert was handed to an insert.
C28_BufferGuarded ==
    [][InsertEndsStep =>
        \A u \in Uids(storage.pending_metrics) \ Uids(storage'.pending_metrics) :
            u \in AttemptedUids']_vars

-----------------------------------------------------------------------------
(* Claims about the flush condition *)

\* the step in which a store_metrics call returns: right away when no insert is awaited,
\* otherwise when the insert ends
StoreReturnsStep ==
    \/ StoreStep /\ storage'.executing = <<>>
    \/ InsertEndsStep

\* the buffer is empty, or below the batch size with less than the timeout elapsed
BelowFlushCondition(sm, t) ==
    \/ sm.pending_metrics = <<>>
    \/ /\ Len(sm.pending_metrics) < sm.batch_size
       /\ t - sm.last_batch_time < sm.batch_timeout_seconds

\* C29: whenever store_metrics returns normally, either the pending buffer is empty or it
\* holds fewer than batch_size rows and fewer than batch_timeout_seconds have elapsed since
\* the last flush; a flush passes all rows pending at that moment to one multi-row insert.
C29_FlushWhenDue ==
    [][/\ StoreReturnsStep => BelowFlushCondition(storage', now')
       /\ (storage.executing = <<>> /\ storage'.executing # <<>>) =>
            /\ StoreStep
            /\ storage'.pending_metrics # <<>>
            /\ storage'.executing = <<storage'.pending_metrics>>
       /\ InsertEndsStep =>
            /\ storage.executing = <<storage.pending_metrics>>
            /\ inserted' = Append(inserted, [rows |-> storage.pending_metrics,
                                             ok   |-> inserted'[Len(inserted')].ok])
            /\ storage'.executing = <<>>
            /\ storage'.pending_metrics = <<>>]_vars

\* C29, its case: a call returned with rows left in the buffer, after a flush that the
\* timeout had triggered wrote the rows of an earlier call in one insert
C29_Witness ==
    /\ storage.executing = <<>>
    /\ Len(storage.pending_metrics) = 3
    /\ now - storage.last_batch_time < storage.batch_timeout_seconds
    /\ Len(inserted) = 1
    /\ inserted[1].ok
    /\ Len(inserted[1].rows) = 3
    /\ storage.last_batch_time = MaxClock

-----------------------------------------------------------------------------
(* Claims about snapshots taken between the handling of messages *)

\* the aggregator after add_event was called for each of the events in turn
RECURSIVE Replayed(_, _)
Replayed(agg, events) ==
    IF events = <<>> THEN agg ELSE Replayed(AggregatorAddEvent(agg, Head(events)), Tail(events))

\* the metrics are those of the aggregator after a whole number of add_event calls, and
\* every request counted overall is counted for its service and for its endpoint
WholeCalls(metrics_data) ==
    /\ \E n \in 0..Len(ingested) :
        LET whole == get_current_metrics(
                        Replayed(MetricsAggregatorInit(DefaultConfig[1], DefaultConfig[2]),
                                 SubSeq(ingested, 1, n)))
        IN  /\ metrics_data.overall = whole.overall
            /\ metrics_data.services = whole.services
            /\ metrics_data.endpoints = whole.endpoints
    /\ SumOfScopes(metrics_data.services, "total_requests") = metrics_data.overall.total_requests
    /\ SumOfScopes(metrics_data.endpoints, "total_requests") = metrics_data.overall.total_requests

\* the rows the storage loop made of its snapshots: buffered, handed to an insert, inserted
RowsOfSnapshots ==
    {storage.pending_metrics[i] : i \in 1..Len(storage.pending_metrics)}
        \cup UNION {{storage.executing[b][i] : i \in 1..Len(storage.executing[b])} :
                        b \in 1..Len(storage.executing)}
        \cup UNION {{inserted[b].rows[i] : i \in 1..Len(inserted[b].rows)} :
                        b \in 1..Len(inserted)}

\* the overall row of a snapshot is followed by a service row and an endpoint row that count
\* the same requests
RowsWhole ==
    \A r \in RowsOfSnapshots :
        r.metric_type = "overall" =>
            /\ \E s \in RowsOfSnapshots :
                /\ s.uid = r.uid + 1
                /\ s.metric_type = "service"
                /\ s.metrics.total_requests = r.metrics.total_requests
            /\ \E e \in RowsOfSnapshots :
                /\ e.uid = r.uid + 2
                /\ e.metric_type = "endpoint"
                /\ e.metrics.total_requests = r.metrics.total_requests

-----------------------------------------------------------------------------
(* Claims about misconfigured rules *)

KnownOperators == {">", "<", ">=", "<=", "=="}

\* the rule has an operator that is none of the five, or a metric_type no scope has
Misconfigured(rule) ==
    \/ rule.operator \notin KnownOperators
    \/ rule.metric_type \notin DOMAIN MetricsOK

\* the ids under which alerts of the rule are active
ActiveOfRule(am, heap, rule_id) ==
    {id \in DOMAIN am.active_alerts : heap[am.active_alerts[id]].rule_id = rule_id}

\* the Alert objects of the rule with their status
AlertsOfRule(heap, rule_id) ==
    {<<i, heap[i].status>> : i \in {j \in 1..Len(heap) : heap[j].rule_id = rule_id}}

\* every Alert object is one of the rule
OnlyRule(heap, rule_id) == \A i \in 1..Len(heap) : heap[i].rule_id = rule_id

\* C31: evaluating a rule whose operator is not one of >, <, >=, <=, == or whose metric_type
\* is absent from the scope's metrics is a skip: a check_metrics call triggers no alert of
\* the rule and leaves the rule's active alerts, the history and the alert counters as they
\* were, also when an alert of the rule is active because add_alert_rule overwrote the rule.
C31_MisconfiguredRuleSkipped ==
    [][CheckStep =>
        \A i \in 1..Len(alert_manager.alert_rules) :
            LET rule == alert_manager.alert_rules[i]
            IN  Misconfigured(rule) =>
                    /\ ActiveOfRule(alert_manager', alerts', rule.id)
                            = ActiveOfRule(alert_manager, alerts, rule.id)
                    /\ AlertsOfRule(alerts', rule.id) = AlertsOfRule(alerts, rule.id)
                    /\ OnlyRule(alerts', rule.id) =>
                            /\ alert_manager'.alert_history = alert_manager.alert_history
                            /\ alert_manager'.stats.total_alerts_triggered
                                    = alert_manager.stats.total_alerts_triggered
                            /\ alert_manager'.stats.total_alerts_resolved
                                    = alert_manager.stats.total_alerts_resolved]_vars

-----------------------------------------------------------------------------
(* Claims about subscribing *)

\* C32: start_consuming returns False and leaves the consumer not consuming (no
\* subscription made, _is_consuming false, start_time unset) when connect has not succeeded
\* or no handler is registered; _is_consuming becomes true only after the subscription call
\* succeeded (the broker holds the subscription and the call returns True).
C32_StartConsumingNeedsQueueAndHandler ==
    [][(StartConsumingCall \/ ConsumeReturns) =>
        /\ (~connections.queue \/ ~connections.event_handler) =>
                /\ last_call' = Call("start_consuming", FALSE)
                /\ connections'.consumers = {}
                /\ ~connections'.is_consuming
                /\ connections'.start_time = NoTime
                /\ ~connections'.subscribing
        /\ connections'.is_consuming => BrokerTag \in connections'.consumers
        /\ (connections'.is_consuming /\ ~connections.is_consuming) =>
                /\ last_call' = Call("start_consuming", TRUE)
                /\ connections'.start_time = now]_vars

\* C32, its case: connect() failed after the connection was opened and a handler is set,
\* or connect() succeeded and no handler is set, and start_consuming returned False
C32_Witness ==
    /\ last_call = Call("start_consuming", FALSE)
    /\ connections.connection = "open"
    /\ connections.queue # connections.event_handler
    /\ ~connections.is_consuming
    /\ now > 0

-----------------------------------------------------------------------------
(* Claims about the history of alerts *)

\* the Alert objects a step created, in the order of their creation
CreatedInStep == [k \in 1..(Len(alerts') - Len(alerts)) |-> Len(alerts) + k]

\* the last n entries of a list, all of them when it has no more than n
Newest(list, n) == SubSeq(list, Max(1, Len(list) - n + 1), Len(list))

\* C33: alert_history never holds more than max_history_size (1000) alerts: when a trigger
\* would exceed the cap the oldest entries are evicted and the newest kept, and the history
\* grows only when an alert is triggered (every step leaves in the history the newest 1000
\* of its entries followed by the alerts the step triggered).
C33_HistoryCapped ==
    [][/\ alert_manager'.max_history_size = 1000
       /\ Len(alert_manager'.alert_history) <= 1000
       /\ alert_manager'.alert_history
            = Newest(alert_manager.alert_history \o CreatedInStep, 1000)
       /\ Len(alerts') = Len(alerts) => alert_manager'.alert_history = alert_manager.alert_history
      ]_vars

\* C33, its case: a check triggered three alerts with 998 alerts in the history: the oldest
\* alert left the history, the three new ones are its last entries
C33_Witness ==
    /\ Len(alerts) = PastAlerts + 3
    /\ Len(alert_manager.alert_history) = 1000
    /\ alert_manager.alert_history[1] = 2
    /\ alert_manager.alert_history[1000] = Len(alerts)
    /\ alert_manager.stats.total_alerts_triggered = PastAlerts + 3

-----------------------------------------------------------------------------
(* Claims about negative latencies *)

\* the event a step handed to add_event
EventOfStep == ingested'[Len(ingested')]

\* the latency figures of a scope
LatencyFigures(scope) ==
    <<scope.avg_response_time, scope.p95_response_time, scope.p99_response_time>>

\* the latency figures of every scope of the snapshot of an aggregator
LatencyOfScopes(agg) ==
    LET metrics_data == get_current_metrics(agg)
    IN  <<LatencyFigures(metrics_data.overall),
          [k \in DOMAIN metrics_data.services |-> LatencyFigures(metrics_data.services[k])],
          [k \in DOMAIN metrics_data.endpoints |-> LatencyFigures(metrics_data.endpoints[k])]>>

\* the requests and errors counted overall, for a service, for an endpoint
CountsOf(agg, service_name, endpoint_key) ==
    LET ws == AllWindows(agg)
    IN  <<SumOver(ws, "request_count"), SumOver(ws, "error_count"),
          KeyedSum(ws, "service_stats", service_name, "request_count"),
          KeyedSum(ws, "service_stats", service_name, "error_count"),
          KeyedSum(ws, "endpoint_stats", endpoint_key, "request_count"),
          KeyedSum(ws, "endpoint_stats", endpoint_key, "error_count")>>

\* C34: a response event with a negative response_time_ms increments the request count (and
\* the error count when status_code >= 400) in every scope but adds nothing to the latency
\* sum or to the latency sample list, so avg and percentiles are unaffected by it.
C34_NegativeLatencyIgnored ==
    [][(Len(ingested') = Len(ingested) + 1 /\ EventOfStep.response_time_ms < 0) =>
        LET key    == EndpointKey(EventOfStep.service_name, EventOfStep.api_endpoint)
            before == CountsOf(aggregator, EventOfStep.service_name, key)
            after  == CountsOf(aggregator', EventOfStep.service_name, key)
            failed == IF EventOfStep.status_code >= 400 THEN 1 ELSE 0
        IN  /\ after = <<before[1] + 1, before[2] + failed, before[3] + 1, before[4] + failed,
                         before[5] + 1, before[6] + failed>>
            /\ SumOver(AllWindows(aggregator'), "total_response_time")
                    = SumOver(AllWindows(aggregator), "total_response_time")
            /\ ConcatTimes(AllWindows(aggregator')) = ConcatTimes(AllWindows(aggregator))
            /\ KeyedTimes(AllWindows(aggregator'), "service_stats", EventOfStep.service_name)
                    = KeyedTimes(AllWindows(aggregator), "service_stats", EventOfStep.service_name)
            /\ KeyedTimes(AllWindows(aggregator'), "endpoint_stats", key)
                    = KeyedTimes(AllWindows(aggregator), "endpoint_stats", key)
            /\ Len(ingested) > 0 => LatencyOfScopes(aggregator') = LatencyOfScopes(aggregator)
      ]_vars

-----------------------------------------------------------------------------
(* Claims about rows passed to the insert *)

\* the batches that were passed to conn.executemany: by inserts that ended, by the insert
\* awaited now, and by inserts that a cancellation interrupted
BatchesPassed ==
    [i \in 1..Len(inserted) |-> inserted[i].rows] \o storage.executing \o processor.abandoned

\* how many times a row was passed to conn.executemany
TimesPassed(uid) ==
    Cardinality({i \in 1..Len(BatchesPassed) : uid \in RowIds(BatchesPassed[i])})

\* C35: every row appended to the pending buffer is passed to the database insert at most
\* once, including when stop() cancels the storage loop in the middle of a flush and
\* force_batch_write then runs on the buffer that the cancelled flush did not clear.
C35_RowsPassedAtMostOnce == \A uid \in 1..storage.rows_created : TimesPassed(uid) <= 1

-----------------------------------------------------------------------------
(* Claims about alerts left active *)

\* the alert's rule is among the rules and enabled, the alert's scope is in the snapshot
\* and the rule's condition holds on the metrics of that scope
StillJustified(alert, rules, metrics_data) ==
    \E i \in 1..Len(rules) :
        /\ rules[i].id = alert.rule_id
        /\ rules[i].enabled
        /\ LET scope == ScopeMetricsOf(metrics_data, alert.service_name, alert.endpoint)
           IN  /\ scope # <<>>
               /\ rules[i].metric_type \in DOMAIN scope[1]
               /\ EvaluateCondition(scope[1][rules[i].metric_type], rules[i].operator,
                                    rules[i].threshold)

\* C36: no active alert is orphaned: an alert stays active only while its rule is enabled
\* and its condition holds in the latest snapshot, so that after remove_alert_rule(r), after
\* rule r is disabled, or after the alert's service or endpoint stops appearing in
\* snapshots, the next check_metrics leaves no alert of that rule or scope in the active map.
C36_NoOrphanedAlert ==
    [][\A metrics_data \in AlertSnapshots :
        check_metrics(metrics_data) =>
            \A id \in DOMAIN alert_manager'.active_alerts :
                StillJustified(alerts'[alert_manager'.active_alerts[id]],
                               alert_manager'.alert_rules, metrics_data)]_vars

-----------------------------------------------------------------------------
(* Claims about rows leaving the buffer *)

\* every row created so far was part of an insert that ended (it was inserted, or dropped
\* by the failed flush) or was dropped by a flush that got no connection
RowsSettled ==
    /\ storage.pending_metrics = <<>>
    /\ storage.executing = <<>>
    /\ \A uid \in 1..storage.rows_created :
            \/ \E i \in 1..Len(inserted) : uid \in RowIds(inserted[i].rows)
            \/ uid \in processor.refused

\* rows are buffered, and the clock can still reach the time at which their flush is due
RowsWaiting ==
    /\ storage.pending_metrics # <<>>
    /\ now + storage.batch_timeout_seconds <= Horizon

\* C37: while the processor keeps running, every row appended to the pending buffer is
\* eventually either inserted or dropped by a failed flush, without stop() being needed:
\* although a flush is only checked inside store_metrics, no row stays buffered forever.
C37_RowsLeaveBuffer == RowsWaiting ~> RowsSettled

\* C37, its case: rows were buffered by a store_metrics call whose flush was not due, and
\* a later iteration of the storage loop flushed them
C37_Witness ==
    /\ RowsSettled
    /\ storage.rows_created >= 6
    /\ \E i \in 1..Len(inserted) : Len(inserted[i].rows) >= 6
    /\ ~processor.is_stopping

-----------------------------------------------------------------------------
(* Claims about the counters of the consumer *)

\* the three outcome counters together
OutcomesCounted ==
    consumer.stats.successful_processed + consumer.stats.failed_processed
        + consumer.stats.invalid_messages

\* the messages whose processing an exception left that neither inner except clause names:
\* another exception while decoding, or the cancellation of the task in the handler
LeftByException == OutcomeCount("unexpected") + OutcomeCount("cancelled")

-----------------------------------------------------------------------------
(* Claims about endpoint keys and alert ids *)

NamesOf(event) == [service_name |-> event.service_name, endpoint |-> event.api_endpoint]

Received == {ingested[j] : j \in DOMAIN ingested}

\* the identities (rule_id, service_name, endpoint) of the scopes of the events received
IdentitiesOf(rule) ==
    {<<rule.id, None, None>>}
        \cup {<<rule.id, event.service_name, None>> : event \in Received}
        \cup {<<rule.id, event.service_name, event.api_endpoint>> : event \in Received}

\* C39: the endpoint key round-trips: for every event received, the key the aggregator
\* builds from service_name and api_endpoint splits back into these two names, the
\* endpoint alerts of the alert manager and the endpoint rows of the storage manager
\* carry the names of an event received, and two different identities
\* (rule_id, service_name, endpoint) never get the same alert id string, also when a
\* service name or an endpoint contains ':'
C39_EndpointKeyRoundTrips ==
    /\ \A event \in Received :
        LET key == event.service_name \o <<":">> \o event.api_endpoint
        IN  /\ key \in DOMAIN get_current_metrics(aggregator).endpoints
            /\ SplitEndpointKey(key) = NamesOf(event)
    /\ \A i \in DOMAIN alerts :
        Truthy(alerts[i].endpoint) =>
            \E event \in Received :
                NamesOf(event) = [service_name |-> alerts[i].service_name,
                                  endpoint     |-> alerts[i].endpoint]
    /\ \A k \in DOMAIN storage.pending_metrics :
        storage.pending_metrics[k].metric_type = "endpoint" =>
            \E event \in Received :
                NamesOf(event) = [service_name |-> storage.pending_metrics[k].service_name,
                                  endpoint     |-> storage.pending_metrics[k].endpoint]
    /\ \A x, y \in IdentitiesOf(HighErrorRate) :
        x # y => GenerateAlertId(HighErrorRate, x[2], x[3])
                    # GenerateAlertId(HighErrorRate, y[2], y[3])

====
